---- MODULE Spec2Model ----
(***************************************************************************)
(* Cost-Optimization-Analyzer: the ingestion pipeline (processCSVFile),    *)
(* the aggregation engine (aggregateData, computeMonthlyAggregates), the   *)
(* routes that start ingestion runs, the nightly job loop, and the         *)
(* analysis passes (detectAnomalies, generateRecommendations).             *)
(*                                                                         *)
(* Costs are integers (cents).  A calendar day is a number; days 1 and 2   *)
(* lie in the month that starts on day 1, day 3 is the first day of the    *)
(* next month.  The document store is MongoDB: a collection is a bag of    *)
(* documents, every await of the code is one step of the model.            *)
(***************************************************************************)
EXTENDS Integers, Sequences, FiniteSets, Bags, TLC

\* ---------------------------------------------------------------- bounds
MaxJobs == 2
MaxProcs == 2
MaxFaults == 1
\* rows the file stream hands to the parser in one chunk, at most
MaxChunk == 2
\* options.chunkSize of a run; the default 1000 is scaled down to ChunkSize
ChunkSize == 2

\* errors.slice(0, 100) at stream end: the cap of 100 stored error entries is
\* scaled down to MaxStoredErrors
MaxStoredErrors == 1

NoUser == "none"
Users == {"u1", "u2"}
JobIds == 1..MaxJobs
Procs == 1..MaxProcs

\* ------------------------------------------------------------- input files
\* A raw CSV row is identified by its ResourceId; its other columns follow.
RawRows == {1, 2, 3}
RowDay(r) == r
RowAccount(r) == IF r = 3 THEN "a2" ELSE "a1"
RowService(r) == IF r = 3 THEN "S3" ELSE "EC2"
RowZone(r) == IF r = 3 THEN "" ELSE "us-east-1a"
RowCost(r) == CASE r = 1 -> 5 [] r = 2 -> 7 [] OTHER -> 3

NoFile == <<0>>
Files == {<<1, 2>>, <<3, 1, 2>>}

VARIABLES
  uniqueIdx,   \* the collections enforce the logical unique keys (deployment)
  jobs,        \* IngestionJob collection: job id -> document
  lineItems,   \* BillingLineItem collection (bag)
  aggregates,  \* Aggregate collection (bag)
  proc,        \* the processCSVFile calls in flight
  nightly,     \* runNightlyProcessing
  faults,      \* write and stream failures injected so far
  anomalies,   \* Anomaly collection (bag)
  recommendations, \* Recommendation collection (bag)
  marks,       \* BillingLineItem.isAnomaly / anomalyScore: the annotated
               \* documents, each with its score
  strictQuery, \* mongoose removes the keys of a filter that the schema
               \* does not declare (deployment)
  det,         \* the detectAnomalies or generateRecommendations call
  raw,         \* the raw row at the normalizer and what it made of it
  scheduler    \* the scheduler module: its task handle and the cron tasks

analysisVars ==
  <<anomalies, recommendations, marks, strictQuery, det, raw, scheduler>>

vars == <<uniqueIdx, jobs, lineItems, aggregates, proc, nightly, faults,
          anomalies, recommendations, marks, strictQuery, det, raw, scheduler>>

\* ---------------------------------------------------------------- helpers
RECURSIVE SumCost(_, _)
SumCost(B, S) ==
  IF S = {} THEN 0
  ELSE LET e == CHOOSE x \in S : TRUE
       IN B[e] * e.cost + SumCost(B, S \ {e})

RECURSIVE SumTotalCost(_, _)
SumTotalCost(B, S) ==
  IF S = {} THEN 0
  ELSE LET e == CHOOSE x \in S : TRUE
       IN B[e] * e.totalCost + SumTotalCost(B, S \ {e})

RECURSIVE SumCount(_, _)
SumCount(B, S) ==
  IF S = {} THEN 0
  ELSE LET e == CHOOSE x \in S : TRUE
       IN B[e] + SumCount(B, S \ {e})

RECURSIVE SumLineItemCount(_, _)
SumLineItemCount(B, S) ==
  IF S = {} THEN 0
  ELSE LET e == CHOOSE x \in S : TRUE
       IN B[e] * e.lineItemCount + SumLineItemCount(B, S \ {e})

BagSize(B) == SumCount(B, DOMAIN B)

RemoveAt(s, i) == SubSeq(s, 1, i - 1) \o SubSeq(s, i + 1, Len(s))

\* ------------------------------------------------------------- normalizer
extractRegion(value) ==
  IF value = "" THEN "unknown"
  ELSE IF value = "us-east-1a" THEN "us-east-1"
  ELSE "unknown"

normalizeLineItem(row, userId) ==
  [ userId |-> userId,
    resourceId |-> row,
    usageStartDate |-> RowDay(row),
    accountId |-> RowAccount(row),
    service |-> RowService(row),
    region |-> extractRegion(RowZone(row)),
    cost |-> RowCost(row) ]

\* ------------------------------------------------------------ the store
\* BillingLineItem.insertMany(docs, {ordered: false}): every document that
\* violates no unique key is written; the call fails with code 11000 when
\* at least one was rejected.
RECURSIVE InsertLineItems(_, _, _)
InsertLineItems(store, docs, unique) ==
  IF docs = <<>> THEN [store |-> store, rejected |-> 0]
  ELSE LET d == Head(docs)
           dup == unique /\ d \in DOMAIN store
           s1 == IF dup THEN store ELSE store (+) SetToBag({d})
           r == InsertLineItems(s1, Tail(docs), unique)
       IN [store |-> r.store, rejected |-> r.rejected + (IF dup THEN 1 ELSE 0)]

AggKey(a) ==
  <<a.userId, a.date, a.accountId, a.service, a.region, a.aggregationType>>

RECURSIVE InsertAggregates(_, _, _)
InsertAggregates(store, docs, unique) ==
  IF docs = {} THEN [store |-> store, rejected |-> 0]
  ELSE LET d == CHOOSE x \in docs : TRUE
           dup == unique /\ \E e \in DOMAIN store : AggKey(e) = AggKey(d)
           s1 == IF dup THEN store ELSE store (+) SetToBag({d})
           r == InsertAggregates(s1, docs \ {d}, unique)
       IN [store |-> r.store, rejected |-> r.rejected + (IF dup THEN 1 ELSE 0)]

\* a deleteMany that removes nothing
DeleteAggregatesNone(store, userId, type) == store

\* Aggregate.deleteMany({userId, aggregationType})
DeleteAggregates(store, userId, type) ==
  LET keep == {e \in DOMAIN store :
                 ~(e.userId = userId /\ e.aggregationType = type)}
  IN [e \in keep |-> store[e]]

\* Aggregate.findOneAndUpdate(key of agg, agg, {upsert: true}): the first
\* document with the key is replaced by agg, or agg is inserted.
UpsertAggregate(store, agg) ==
  LET found == {e \in DOMAIN store : AggKey(e) = AggKey(agg)}
  IN IF found = {} THEN store (+) SetToBag({agg})
     ELSE LET old == CHOOSE e \in found : TRUE
          IN (store (-) SetToBag({old})) (+) SetToBag({agg})

FindAggregates(store, userId, type) ==
  {e \in DOMAIN store : e.userId = userId /\ e.aggregationType = type}

FindLineItems(store, userId) == {e \in DOMAIN store : e.userId = userId}

\* ------------------------------------------------------- aggregation maths
MonthStart(day) == IF day <= 2 THEN 1 ELSE 3

DailyKeys(store, userId) ==
  {<<e.usageStartDate, e.accountId, e.service, e.region>> :
     e \in FindLineItems(store, userId)}

\* aggregateData, lines 289-316: one daily row per (day, account, service, region)
dailyAggregates(store, userId) ==
  { LET members == {e \in FindLineItems(store, userId) :
                      <<e.usageStartDate, e.accountId, e.service, e.region>> = k}
    IN [ userId |-> userId, date |-> k[1], accountId |-> k[2],
         service |-> k[3], region |-> k[4], aggregationType |-> "daily",
         totalCost |-> SumCost(store, members),
         lineItemCount |-> SumCount(store, members) ]
    : k \in DailyKeys(store, userId) }

\* computeMonthlyAggregates, lines 401-428
monthlyMap(store, userId) ==
  LET dailyAggs == FindAggregates(store, userId, "daily")
      keys == {<<MonthStart(d.date), d.accountId, d.service, d.region>> :
                 d \in dailyAggs}
  IN { LET members == {d \in dailyAggs :
                         <<MonthStart(d.date), d.accountId, d.service, d.region>> = k}
       IN [ userId |-> userId, date |-> k[1], accountId |-> k[2],
            service |-> k[3], region |-> k[4], aggregationType |-> "monthly",
            totalCost |-> SumTotalCost(store, members),
            lineItemCount |-> SumLineItemCount(store, members) ]
       : k \in keys }

\* ------------------------------------------------------------------ state
NoJob ==
  [ status |-> "none", userId |-> NoUser, file |-> NoFile, started |-> FALSE,
    rowsProcessed |-> 0, rowsTotal |-> 0, rowsSkipped |-> 0, errors |-> 0 ]

NewJob(userId, file) ==
  [ NoJob EXCEPT !.status = "pending", !.userId = userId, !.file = file ]

IdleProc ==
  [ pc |-> "idle", caller |-> "none", jobId |-> 0, argUser |-> NoUser,
    userId |-> NoUser, unread |-> <<>>, parsed |-> <<>>, paused |-> FALSE,
    rowCount |-> 0, processedCount |-> 0, skippedCount |-> 0, errors |-> 0,
    batch |-> <<>>, pending |-> <<>>, flush |-> <<>>,
    aggUser |-> NoUser, daily |-> {}, todo |-> {}, alone |-> FALSE,
    after |-> {}, writeFailed |-> FALSE,
    result |-> "none", processed |-> 0, skipped |-> 0, total |-> 0 ]

IdleNightly == [ pc |-> "idle", queue |-> <<>>, proc |-> 0 ]

\* no analysis call has been made; nothing detected, recommended or annotated
NoCall == [ pc |-> "idle" ]

\* no row is at the normalizer
NoRow == [ pc |-> "none" ]

\* let scheduler = null (schedulerService.js, line 10): no task was created.
\* handle: the task that the variable scheduler refers to (0 for null);
\* active: the cron tasks that fire; created: the tasks created so far;
\* last: what the last call of startScheduler or stopScheduler did
NoScheduler == [ handle |-> 0, active |-> {}, created |-> 0, last |-> "none" ]

QuietAnalysis ==
  /\ anomalies = EmptyBag
  /\ recommendations = EmptyBag
  /\ marks = {}
  /\ strictQuery = TRUE
  /\ det = NoCall
  /\ raw = NoRow
  /\ scheduler = NoScheduler

RECURSIVE PendingJobs(_, _)
PendingJobs(js, j) ==
  IF j > MaxJobs THEN <<>>
  ELSE (IF js[j].status = "pending" THEN <<j>> ELSE <<>>) \o PendingJobs(js, j + 1)

\* A job stored before jobs had owners (userId is optional in the schema).
LegacyJobs == {NewJob(NoUser, f) : f \in {NoFile, <<1, 2>>}}

InitStore(unique) ==
  /\ uniqueIdx = unique
  /\ jobs \in {[j \in JobIds |-> NoJob]} \cup
              {[j \in JobIds |-> IF j = 1 THEN l ELSE NoJob] : l \in LegacyJobs}
  /\ lineItems = EmptyBag
  /\ aggregates = EmptyBag
  /\ proc = [p \in Procs |-> IdleProc]
  /\ nightly = IdleNightly
  /\ faults = 0
  /\ QuietAnalysis

\* the collections as the schemas declare them: no unique index
Init == InitStore(FALSE)

\* a database whose collections enforce the unique keys the handlers of
\* error 11000 expect
InitIndexed == InitStore(TRUE)

\* ------------------------------------------------------------ bookkeeping
Set(p, rec) == [proc EXCEPT ![p] = rec]

\* the server process is running: no uncaught exception has ended it
ServerUp == \A q \in Procs : proc[q].pc # "crashed"

FreeProc(p) ==
  /\ ServerUp
  /\ proc[p].pc = "idle"
  /\ \A q \in Procs : q < p => proc[q].pc # "idle"

\* A write to the line items or aggregates by somebody else than the rebuild
\* of q: q's rebuild no longer runs alone.
Disturbed(pr, writer) ==
  [q \in Procs |-> IF q # writer /\ pr[q].alone
                   THEN [pr[q] EXCEPT !.alone = FALSE] ELSE pr[q]]

\* the calls that had settled, with no write left in flight, when this one
\* began (history kept for the properties, like the fields alone and
\* writeFailed of a call; the code does not read it)
SettledCalls ==
  {q \in Procs : proc[q].pc = "resolved" /\ proc[q].pending = <<>>}

StartRun(p, j, u, caller) ==
  [IdleProc EXCEPT !.pc = "find_job", !.caller = caller, !.jobId = j,
                   !.argUser = u, !.after = SettledCalls]

\* ------------------------------------------------------------------ routes
\* router.post('/') of the upload route: create the job, start the run
Upload(p, j, u, f) ==
  /\ FreeProc(p)
  /\ jobs[j].status = "none"
  /\ \A i \in JobIds : i < j => jobs[i].status # "none"
  \* user ids are interchangeable: the first user to upload is called u1
  /\ u = "u2" => \E i \in JobIds : jobs[i].userId = "u1"
  /\ jobs' = [jobs EXCEPT ![j] = NewJob(u, f)]
  /\ proc' = Set(p, StartRun(p, j, u, "caller"))
  /\ UNCHANGED <<analysisVars, uniqueIdx, lineItems, aggregates, nightly, faults>>

\* router.post('/:id/process'): refuses only a job that is processing
ManualProcess(p, j) ==
  /\ FreeProc(p)
  /\ jobs[j].status # "none"
  /\ jobs[j].userId # NoUser
  /\ jobs[j].status # "processing"
  /\ proc' = Set(p, StartRun(p, j, NoUser, "caller"))
  /\ UNCHANGED <<analysisVars, uniqueIdx, jobs, lineItems, aggregates, nightly, faults>>

\* processCSVFile called directly (the exported function), any userId option
CallProcessFile(p, j, u) ==
  /\ FreeProc(p)
  /\ jobs[j].status # "none"
  /\ jobs[j].file # NoFile
  /\ proc' = Set(p, StartRun(p, j, u, "caller"))
  /\ UNCHANGED <<analysisVars, uniqueIdx, jobs, lineItems, aggregates, nightly, faults>>

\* ------------------------------------------------------------ processCSVFile
\* the job's owner taking precedence over the userId option
userIdToUseOwnerFirst(userId, job) ==
  IF job.userId # NoUser THEN job.userId ELSE userId

\* line 130
userIdToUse(userId, job) == IF userId # NoUser THEN userId ELSE job.userId

\* lines 123-138: load the job, resolve the user, mark the job processing
FindJob(p) ==
  LET r == proc[p]
      job == jobs[r.jobId]
      u == userIdToUse(r.argUser, job)
  IN /\ ServerUp
     /\ r.pc = "find_job"
     /\ IF u = NoUser
        THEN /\ proc' = Set(p, [r EXCEPT !.pc = "rejected",
                                         !.result = "UserRequired"])
             /\ UNCHANGED jobs
        ELSE /\ jobs' = [jobs EXCEPT ![r.jobId].status = "processing",
                                     ![r.jobId].started = TRUE]
             /\ proc' = Set(p, [r EXCEPT !.pc = "streaming", !.userId = u,
                                         !.unread = job.file])
     /\ UNCHANGED <<analysisVars, uniqueIdx, lineItems, aggregates, nightly, faults>>

\* the file stream hands its next chunk (k rows) to the CSV parser
SourceRead(p, k) ==
  LET r == proc[p]
  IN /\ ServerUp
     /\ r.pc = "streaming"
     /\ ~r.paused
     /\ k \in 1..Len(r.unread)
     /\ proc' = Set(p, [r EXCEPT !.parsed = r.parsed \o SubSeq(r.unread, 1, k),
                                 !.unread = SubSeq(r.unread, k + 1, Len(r.unread))])
     /\ UNCHANGED <<analysisVars, uniqueIdx, jobs, lineItems, aggregates, nightly, faults>>

\* on('data'), lines 161-187: up to the await of insertMany
DataRow(p) ==
  LET r == proc[p]
      normalized == normalizeLineItem(Head(r.parsed), r.userId)
      batch == Append(r.batch, normalized)
      full == Len(batch) >= ChunkSize
  IN /\ ServerUp
     /\ r.pc = "streaming"
     /\ r.parsed # <<>>
     /\ proc' = Set(p, [r EXCEPT
                          !.parsed = Tail(r.parsed),
                          !.rowCount = r.rowCount + 1,
                          !.batch = batch,
                          !.paused = r.paused \/ full,
                          !.pending = IF full THEN Append(r.pending, batch)
                                      ELSE r.pending])
     /\ UNCHANGED <<analysisVars, uniqueIdx, jobs, lineItems, aggregates, nightly, faults>>

\* on('data'), lines 187-213: the insertMany of a row handler returns
WriteDone(p, i, fails) ==
  LET r == proc[p]
      ins == InsertLineItems(lineItems, r.pending[i], uniqueIdx)
      settled == r.pc \in {"resolved", "rejected"}
  IN /\ ServerUp
     /\ i \in 1..Len(r.pending)
     /\ fails => faults < MaxFaults
     /\ faults' = faults + (IF fails THEN 1 ELSE 0)
     /\ IF fails
        THEN \* an error other than 11000: rethrown, caught at line 206
             /\ proc' = Set(p, [r EXCEPT
                                  !.pending = RemoveAt(r.pending, i),
                                  !.writeFailed = r.writeFailed \/ ~settled,
                                  !.skippedCount = IF settled THEN 0 ELSE r.skippedCount + 1,
                                  !.errors = IF settled THEN 0 ELSE r.errors + 1])
             /\ UNCHANGED lineItems
        ELSE /\ lineItems' = ins.store
             /\ proc' = [Disturbed(proc, 0) EXCEPT ![p] =
                           [r EXCEPT
                              !.alone = FALSE,
                              !.pending = RemoveAt(r.pending, i),
                              !.processedCount =
                                 IF settled THEN 0
                                 ELSE IF ins.rejected = 0
                                 THEN r.processedCount + Len(r.batch)
                                 ELSE r.processedCount,
                              !.skippedCount =
                                 IF settled THEN 0
                                 ELSE IF ins.rejected = 0 THEN r.skippedCount
                                 ELSE r.skippedCount + Len(r.batch),
                              !.batch = <<>>,
                              !.paused = FALSE]]
     /\ UNCHANGED <<analysisVars, uniqueIdx, jobs, aggregates, nightly>>

Min(a, b) == IF a < b THEN a ELSE b

\* lines 231-238: the terminal status and the counters, saved with the job
Finalize(job, processedCount, rowCount, skippedCount, errors) ==
  [ job EXCEPT !.status = IF processedCount > 0 THEN "completed" ELSE "failed",
               !.rowsProcessed = processedCount,
               !.rowsTotal = rowCount,
               !.rowsSkipped = skippedCount,
               !.errors = Min(errors, MaxStoredErrors) ]

\* line 246: resolve({processed, skipped, total}); the call's locals die
Resolved(r) ==
  [ IdleProc EXCEPT !.pc = "resolved", !.caller = r.caller, !.jobId = r.jobId,
                    !.argUser = r.argUser, !.userId = r.userId,
                    !.after = r.after, !.writeFailed = r.writeFailed,
                    !.pending = r.pending, !.result = "ok",
                    !.processed = r.processedCount,
                    !.skipped = r.skippedCount, !.total = r.rowCount ]

Rejected(r, err) ==
  [ IdleProc EXCEPT !.pc = "rejected", !.caller = r.caller, !.jobId = r.jobId,
                    !.argUser = r.argUser, !.userId = r.userId,
                    !.after = r.after, !.writeFailed = r.writeFailed,
                    !.pending = r.pending, !.result = err ]

\* on('end'), lines 215-219: the stream has ended
StreamEnd(p) ==
  LET r == proc[p]
  IN /\ ServerUp
     /\ r.pc = "streaming"
     /\ ~r.paused
     /\ r.unread = <<>>
     /\ r.parsed = <<>>
     /\ IF r.batch # <<>>
        THEN /\ proc' = Set(p, [r EXCEPT !.pc = "end_flush", !.flush = r.batch])
             /\ UNCHANGED jobs
        ELSE /\ jobs' = [jobs EXCEPT ![r.jobId] =
                           Finalize(@, r.processedCount, r.rowCount,
                                    r.skippedCount, r.errors)]
             /\ proc' = Set(p, [r EXCEPT !.pc = "end_saved"])
     /\ UNCHANGED <<analysisVars, uniqueIdx, lineItems, aggregates, nightly, faults>>

\* on('end'), lines 219-238: the final insertMany returns, the job is saved
EndFlushDone(p, fails) ==
  LET r == proc[p]
      ins == InsertLineItems(lineItems, r.flush, uniqueIdx)
      processedCount == IF ~fails /\ ins.rejected = 0
                        THEN r.processedCount + Len(r.batch)
                        ELSE r.processedCount
      skippedCount == IF ~fails /\ ins.rejected > 0
                      THEN r.skippedCount + Len(r.batch)
                      ELSE r.skippedCount
  IN /\ ServerUp
     /\ r.pc = "end_flush"
     /\ fails => faults < MaxFaults
     /\ faults' = faults + (IF fails THEN 1 ELSE 0)
     /\ lineItems' = IF fails THEN lineItems ELSE ins.store
     /\ jobs' = [jobs EXCEPT ![r.jobId] =
                   Finalize(@, processedCount, r.rowCount, skippedCount, r.errors)]
     /\ proc' = [(IF fails THEN proc ELSE Disturbed(proc, p)) EXCEPT ![p] =
                   [r EXCEPT !.pc = "end_saved", !.flush = <<>>,
                             !.writeFailed = r.writeFailed \/ fails,
                             !.processedCount = processedCount,
                             !.skippedCount = skippedCount]]
     /\ UNCHANGED <<analysisVars, uniqueIdx, aggregates, nightly>>

\* lines 240-246 and 269-273: after job.save(); aggregateData(jobId) loads
\* the job and takes the user of the rebuild from it
AfterSave(p) ==
  LET r == proc[p]
      job == jobs[r.jobId]
  IN /\ ServerUp
     /\ r.pc = "end_saved"
     /\ proc' = Set(p, IF r.processedCount > 0 /\ job.userId # NoUser
                       THEN [r EXCEPT !.pc = "agg_items", !.aggUser = job.userId]
                       ELSE Resolved(r))
     /\ UNCHANGED <<analysisVars, uniqueIdx, jobs, lineItems, aggregates, nightly, faults>>

\* on('error'), lines 248-258: the CSV parser emits 'error'
StreamError(p) ==
  LET r == proc[p]
  IN /\ ServerUp
     /\ r.pc = "streaming"
     /\ ~r.paused
     /\ r.unread # <<>>
     /\ faults < MaxFaults
     /\ faults' = faults + 1
     /\ jobs' = [jobs EXCEPT ![r.jobId].status = "failed",
                             ![r.jobId].errors = @ + 1]
     /\ proc' = Set(p, Rejected(r, "StreamError"))
     /\ UNCHANGED <<analysisVars, uniqueIdx, lineItems, aggregates, nightly>>

\* The file stream itself emits 'error' (the file cannot be opened or read).
\* pipe() does not forward the event to the parser, and lines 148-151 attach
\* no 'error' listener to the file stream: the event is thrown as an uncaught
\* exception, which ends the server process.  The handler of lines 248-258 does
\* not run, and no call in flight takes a further step.
SourceError(p) ==
  LET r == proc[p]
  IN /\ ServerUp
     /\ r.pc = "streaming"
     /\ ~r.paused
     /\ r.unread # <<>>
     /\ faults < MaxFaults
     /\ faults' = faults + 1
     /\ proc' = Set(p, [r EXCEPT !.pc = "crashed"])
     /\ UNCHANGED <<analysisVars, uniqueIdx, jobs, lineItems, aggregates, nightly>>

\* --------------------------------------------------------- aggregateData
\* lines 280-316: load the user's line items and group them
AggItems(p) ==
  LET r == proc[p]
  IN /\ ServerUp
     /\ r.pc = "agg_items"
     /\ proc' = Set(p, IF FindLineItems(lineItems, r.aggUser) = {}
                       THEN Resolved(r)
                       ELSE [r EXCEPT !.pc = "agg_del", !.alone = TRUE,
                                      !.todo = dailyAggregates(lineItems, r.aggUser)])
     /\ UNCHANGED <<analysisVars, uniqueIdx, jobs, lineItems, aggregates, nightly, faults>>

\* lines 319-322
AggDelete(p) ==
  LET r == proc[p]
  IN /\ ServerUp
     /\ r.pc = "agg_del"
     /\ aggregates' = DeleteAggregates(aggregates, r.aggUser, "daily")
     /\ proc' = [Disturbed(proc, p) EXCEPT ![p] = [r EXCEPT !.pc = "agg_ins"]]
     /\ UNCHANGED <<analysisVars, uniqueIdx, jobs, lineItems, nightly, faults>>

\* lines 326-341
AggInsert(p) ==
  LET r == proc[p]
      ins == InsertAggregates(aggregates, r.todo, uniqueIdx)
  IN /\ ServerUp
     /\ r.pc = "agg_ins"
     /\ aggregates' = ins.store
     /\ proc' = [Disturbed(proc, p) EXCEPT ![p] =
                   IF ins.rejected = 0
                   THEN [r EXCEPT !.pc = "mon_find", !.daily = r.todo, !.todo = {}]
                   ELSE [r EXCEPT !.pc = "agg_upsert", !.daily = r.todo]]
     /\ UNCHANGED <<analysisVars, uniqueIdx, jobs, lineItems, nightly, faults>>

\* lines 344-358: one findOneAndUpdate of the upsert loop
AggUpsert(p, a) ==
  LET r == proc[p]
  IN /\ ServerUp
     /\ r.pc = "agg_upsert"
     /\ a \in r.todo
     /\ aggregates' = UpsertAggregate(aggregates, a)
     /\ proc' = [Disturbed(proc, p) EXCEPT ![p] =
                   [r EXCEPT !.todo = r.todo \ {a},
                             !.pc = IF r.todo = {a} THEN "mon_find" ELSE "agg_upsert"]]
     /\ UNCHANGED <<analysisVars, uniqueIdx, jobs, lineItems, nightly, faults>>

\* ------------------------------------------------ computeMonthlyAggregates
\* lines 392-428
MonFind(p) ==
  LET r == proc[p]
  IN /\ ServerUp
     /\ r.pc = "mon_find"
     /\ proc' = Set(p, IF FindAggregates(aggregates, r.aggUser, "daily") = {}
                       THEN Resolved(r)
                       ELSE [r EXCEPT !.pc = "mon_del", !.alone = FALSE,
                                      !.todo = monthlyMap(aggregates, r.aggUser)])
     /\ UNCHANGED <<analysisVars, uniqueIdx, jobs, lineItems, aggregates, nightly, faults>>

\* lines 431-434
MonDelete(p) ==
  LET r == proc[p]
  IN /\ ServerUp
     /\ r.pc = "mon_del"
     /\ aggregates' = DeleteAggregates(aggregates, r.aggUser, "monthly")
     /\ proc' = [Disturbed(proc, p) EXCEPT ![p] = [r EXCEPT !.pc = "mon_ins"]]
     /\ UNCHANGED <<analysisVars, uniqueIdx, jobs, lineItems, nightly, faults>>

\* lines 437-445
MonInsert(p) ==
  LET r == proc[p]
      ins == InsertAggregates(aggregates, r.todo, uniqueIdx)
  IN /\ ServerUp
     /\ r.pc = "mon_ins"
     /\ aggregates' = ins.store
     /\ proc' = [Disturbed(proc, p) EXCEPT ![p] =
                   IF ins.rejected = 0 THEN Resolved(r)
                   ELSE [r EXCEPT !.pc = "mon_upsert"]]
     /\ UNCHANGED <<analysisVars, uniqueIdx, jobs, lineItems, nightly, faults>>

\* lines 447-460
MonUpsert(p, a) ==
  LET r == proc[p]
  IN /\ ServerUp
     /\ r.pc = "mon_upsert"
     /\ a \in r.todo
     /\ aggregates' = UpsertAggregate(aggregates, a)
     /\ proc' = [Disturbed(proc, p) EXCEPT ![p] =
                   IF r.todo = {a} THEN Resolved(r)
                   ELSE [r EXCEPT !.todo = r.todo \ {a}]]
     /\ UNCHANGED <<analysisVars, uniqueIdx, jobs, lineItems, nightly, faults>>

\* ------------------------------------------------------ runNightlyProcessing
\* lines 55-78: after the last pending job the run goes on to the monthly
\* aggregates
NightlyAfter(queue) ==
  IF queue = <<>> THEN [pc |-> "monthly", queue |-> <<>>, proc |-> 0]
  ELSE [pc |-> "loop", queue |-> queue, proc |-> 0]

\* line 52: the pending jobs, as loaded
NightlyStart ==
  /\ ServerUp
  /\ nightly.pc = "idle"
  /\ PendingJobs(jobs, 1) # <<>>
  /\ nightly' = [nightly EXCEPT !.pc = "loop", !.queue = PendingJobs(jobs, 1)]
  /\ UNCHANGED <<analysisVars, uniqueIdx, jobs, lineItems, aggregates, proc, faults>>

\* lines 55-65: the next pending job: process it, or fail it without a file
NightlyNext(p) ==
  LET j == Head(nightly.queue)
  IN /\ ServerUp
     /\ nightly.pc = "loop"
     /\ nightly.queue # <<>>
     /\ IF jobs[j].file # NoFile
        THEN /\ FreeProc(p)
             /\ proc' = Set(p, StartRun(p, j, jobs[j].userId, "nightly"))
             /\ nightly' = [nightly EXCEPT !.pc = "wait", !.proc = p]
                        /\ UNCHANGED jobs
        ELSE /\ p = 1
             /\ jobs' = [jobs EXCEPT ![j].status = "failed"]
             /\ nightly' = NightlyAfter(Tail(nightly.queue))
             /\ UNCHANGED proc
     /\ UNCHANGED <<analysisVars, uniqueIdx, lineItems, aggregates, faults>>

\* lines 60 and 66-75: the awaited processCSVFile has settled
NightlyJoin ==
  LET p == nightly.proc
      j == Head(nightly.queue)
  IN /\ ServerUp
     /\ nightly.pc = "wait"
     /\ proc[p].pc \in {"resolved", "rejected"}
     /\ jobs' = IF proc[p].pc = "rejected"
                THEN [jobs EXCEPT ![j].status = "failed", ![j].errors = @ + 1]
                ELSE jobs
     /\ proc' = Set(p, [proc[p] EXCEPT !.caller = "joined"])
     /\ nightly' = NightlyAfter(Tail(nightly.queue))
     /\ UNCHANGED <<analysisVars, uniqueIdx, lineItems, aggregates, faults>>

\* aggregates.length < 7
MinPoints == 7

\* the store holds less than a week of data: fewer than MinPoints daily
\* aggregates, and line items of fewer than MinPoints days
UnderAWeek ==
  /\ SumCount(aggregates, {e \in DOMAIN aggregates :
                             e.aggregationType = "daily"}) < MinPoints
  /\ Cardinality({<<e.usageStartDate, e.accountId, e.service, e.region>> :
                    e \in DOMAIN lineItems}) < MinPoints

\* lines 78-98 on a store with less than a week of data, in one step:
\* computeMonthlyAggregates() without a user returns at once; detectAnomalies
\* finds fewer than MinPoints points, whatever its window, and returns
\* without a write; generateRecommendations() without a user throws, which
\* ends the run
NightlyRest ==
  /\ ServerUp
  /\ nightly.pc = "monthly"
  /\ UnderAWeek
  /\ nightly' = IdleNightly
  /\ UNCHANGED <<analysisVars, uniqueIdx, jobs, lineItems, aggregates, proc, faults>>

\* ------------------------------------------------------------ specification
RunStep(p) ==
  \/ FindJob(p)
  \/ \E k \in 1..MaxChunk : SourceRead(p, k)
  \/ DataRow(p)
  \/ \E i \in 1..Len(proc[p].pending), fails \in BOOLEAN : WriteDone(p, i, fails)
  \/ StreamEnd(p)
  \/ \E fails \in BOOLEAN : EndFlushDone(p, fails)
  \/ AfterSave(p)
  \/ StreamError(p)
  \/ SourceError(p)
  \/ AggItems(p)
  \/ AggDelete(p)
  \/ AggInsert(p)
  \/ MonFind(p)
  \/ MonDelete(p)
  \/ MonInsert(p)

\* the upsert loops run only after an insertMany has failed with 11000
UpsertStep(p) ==
  \/ \E a \in proc[p].todo : AggUpsert(p, a)
  \/ \E a \in proc[p].todo : MonUpsert(p, a)

ProgramNext ==
  \/ \E p \in Procs, j \in JobIds, u \in Users, f \in Files : Upload(p, j, u, f)
  \/ \E p \in Procs, j \in JobIds : ManualProcess(p, j)
  \/ NightlyStart
  \/ \E p \in Procs : NightlyNext(p)
  \/ NightlyJoin
  \/ NightlyRest
  \/ \E p \in Procs : RunStep(p)

\* the running server (the routes and the nightly job) on the database the
\* schemas declare
Spec == Init /\ [][ProgramNext]_vars

\* the running server on a database with the unique keys
IndexedNext ==
  \/ ProgramNext
  \/ \E p \in Procs : UpsertStep(p)

IndexedSpec == InitIndexed /\ [][IndexedNext]_vars

\* the exported processCSVFile called by any client on stored jobs
\* job 1 is owned by u1 or by nobody, the later jobs by u2
ApiJobs(owner1) ==
  [j \in JobIds |-> IF j = 1 THEN NewJob(owner1, <<1, 2>>)
                    ELSE NewJob("u2", <<3, 1, 2>>)]

InitApi ==
  /\ uniqueIdx = FALSE
  /\ jobs \in {ApiJobs(o) : o \in {"u1", NoUser}}
  /\ lineItems = EmptyBag
  /\ aggregates = EmptyBag
  /\ proc = [p \in Procs |-> IdleProc]
  /\ nightly = IdleNightly
  /\ faults = 0
  /\ QuietAnalysis

ApiNext ==
  \/ \E p \in Procs, j \in JobIds, u \in Users \cup {NoUser} : CallProcessFile(p, j, u)
  \/ \E p \in Procs : RunStep(p)

ApiSpec == InitApi /\ [][ApiNext]_vars

\* -------------------------------------------------------------- properties
RowsOf(file, userId) == {normalizeLineItem(file[i], userId) : i \in 1..Len(file)}

RECURSIVE FileCost(_)
FileCost(file) ==
  IF file = <<>> THEN 0 ELSE RowCost(Head(file)) + FileCost(Tail(file))

LineItemTotal(u) == SumCost(lineItems, FindLineItems(lineItems, u))
DailyTotal(u) == SumTotalCost(aggregates, FindAggregates(aggregates, u, "daily"))
MonthlyTotal(u) == SumTotalCost(aggregates, FindAggregates(aggregates, u, "monthly"))

\* the step is one of call p (a write of another call touches only alone)
Acts(p) == [proc'[p] EXCEPT !.alone = FALSE] # [proc[p] EXCEPT !.alone = FALSE]

\* call q ingested, for the same user, the file call p had ingested in full
\* before q began; both have resolved and no write failed
Reingested(p, q) ==
  /\ proc[p].pc = "resolved"
  /\ proc[q].pc = "resolved"
  /\ p \in proc[q].after
  /\ proc[q].pending = <<>>
  /\ proc[p].userId = proc[q].userId
  /\ jobs[proc[p].jobId].file = jobs[proc[q].jobId].file
  /\ proc[p].processed = Len(jobs[proc[p].jobId].file)
  /\ faults = 0

\* C1: after the same file has been ingested a second time for the same user,
\* the second run having begun after the first resolved, the user's line
\* items are the rows of the file, each stored once, and the user's daily and
\* monthly totals are the totals of one ingestion.
C1_ReingestIdempotent ==
  \A p, q \in Procs :
    Reingested(p, q) =>
      LET u == proc[q].userId
          f == jobs[proc[q].jobId].file
      IN /\ FindLineItems(lineItems, u) = RowsOf(f, u)
         /\ \A e \in FindLineItems(lineItems, u) : lineItems[e] = 1
         /\ DailyTotal(u) = FileCost(f)
         /\ MonthlyTotal(u) = FileCost(f)

OwnMonthTotal(daily, m) ==
  LET days == {d \in daily : /\ MonthStart(d.date) = m.date
                             /\ d.accountId = m.accountId
                             /\ d.service = m.service
                             /\ d.region = m.region}
  IN SumTotalCost(SetToBag(days), days)

\* C3: when the rebuild of a call completes, every monthly row of the user
\* holds the sum of the daily rows this call wrote for that month, account,
\* service and region.
C3_MonthlyFromOwnDaily ==
  [][\A p \in Procs :
       (proc[p].pc \in {"mon_find", "mon_ins"} /\ proc'[p].pc = "resolved") =>
         \A m \in FindAggregates(aggregates', proc[p].aggUser, "monthly") :
           m.totalCost = OwnMonthTotal(proc[p].daily, m)]_vars

\* C4: the Aggregate collection never holds two rows with the same
\* (userId, date, accountId, service, region, aggregationType).
C4_AggregateKeyUnique ==
  \A a, b \in DOMAIN aggregates :
    /\ aggregates[a] = 1
    /\ AggKey(a) = AggKey(b) => a = b

\* C5: a step of a processFile call running for user A leaves the line items
\* and the aggregates of every other user as they were.
C5_PartitionIsolation ==
  [][\A p \in Procs :
       (Acts(p) /\ proc[p].userId # NoUser) =>
         /\ \A e \in DOMAIN lineItems \cup DOMAIN lineItems' :
              e.userId # proc[p].userId =>
                CopiesIn(e, lineItems') = CopiesIn(e, lineItems)
         /\ \A e \in DOMAIN aggregates \cup DOMAIN aggregates' :
              e.userId # proc[p].userId =>
                CopiesIn(e, aggregates') = CopiesIn(e, aggregates)]_vars

\* C6: a job's status changes only from pending to processing and from
\* processing to completed, failed or partial (none: not created yet).
C6_StatusLifecycle ==
  [][\A j \in JobIds :
       jobs'[j].status # jobs[j].status =>
         <<jobs[j].status, jobs'[j].status>> \in
           { <<"none", "pending">>, <<"pending", "processing">>,
             <<"processing", "completed">>, <<"processing", "failed">>,
             <<"processing", "partial">> }]_vars

\* C7: when a call that is the only one on its job resolves, the job is
\* stored completed if the resolved processed count is positive and failed
\* otherwise, and the stored counters are the resolved ones.
C7_FinalizedAsResolved ==
  [][\A p \in Procs :
       (/\ proc[p].pc \notin {"idle", "resolved"}
        /\ proc'[p].pc = "resolved"
        /\ \A q \in Procs \ {p} : proc[q].jobId # proc[p].jobId) =>
         LET job == jobs'[proc[p].jobId]
             r == proc'[p]
         IN /\ job.status = IF r.processed > 0 THEN "completed" ELSE "failed"
            /\ job.rowsProcessed = r.processed
            /\ job.rowsTotal = r.total
            /\ job.rowsSkipped = r.skipped]_vars

StampedWith(r, u) ==
  /\ \A i \in 1..Len(r.batch) : r.batch[i].userId = u
  /\ \A i \in 1..Len(r.flush) : r.flush[i].userId = u
  /\ \A k \in 1..Len(r.pending) :
       \A i \in 1..Len(r.pending[k]) : r.pending[k][i].userId = u

\* C8: a call with no userId on a job without owner is rejected at once with
\* UserRequired: the file is not opened and the jobs, the line items and the
\* aggregates stay as they are.  When a userId is given and the job has an
\* owner, every row the call buffers or writes carries the given userId.
C8_UserRequired ==
  [][\A p \in Procs :
       /\ (/\ proc[p].pc = "find_job"
           /\ proc'[p].pc # "find_job"
           /\ proc[p].argUser = NoUser
           /\ jobs[proc[p].jobId].userId = NoUser) =>
            /\ proc'[p].pc = "rejected"
            /\ proc'[p].result = "UserRequired"
            /\ proc'[p].unread = <<>>
            /\ proc'[p].parsed = <<>>
            /\ jobs' = jobs
            /\ lineItems' = lineItems
            /\ aggregates' = aggregates
       /\ (/\ proc'[p].argUser # NoUser
           /\ jobs'[proc'[p].jobId].userId # NoUser) =>
            /\ StampedWith(proc'[p], proc'[p].argUser)
            /\ \A e \in DOMAIN lineItems' :
                 (Acts(p) /\ CopiesIn(e, lineItems') > CopiesIn(e, lineItems)) =>
                   e.userId = proc'[p].argUser]_vars

\* one call was rejected with UserRequired on a job that is still pending and
\* not started, and another stored rows for the userId it was given on a job
\* owned by somebody else
C8_BothCases ==
  /\ \E p \in Procs :
       /\ proc[p].result = "UserRequired"
       /\ jobs[proc[p].jobId].status = "pending"
       /\ ~jobs[proc[p].jobId].started
  /\ \E q \in Procs :
       /\ proc[q].argUser # NoUser
       /\ jobs[proc[q].jobId].userId \notin {NoUser, proc[q].argUser}
       /\ \E e \in DOMAIN lineItems : e.userId = proc[q].argUser

Written == BagSize(lineItems') - BagSize(lineItems)

\* C9: when the only write in flight of a call returns (mid-stream or at the
\* end of the stream) and the rows it was given are the rows of the buffer,
\* the rows written are added to processed and the rows rejected to skipped.
C9_PartialBatchCounted ==
  [][\A p \in Procs :
       (/\ faults' = faults
        /\ \/ /\ proc[p].pc = "streaming"
              /\ proc[p].pending = <<proc[p].batch>>
              /\ proc'[p].pending = <<>>
           \/ /\ proc[p].pc = "end_flush"
              /\ proc[p].pending = <<>>
              /\ proc[p].flush = proc[p].batch
              /\ proc'[p].pc = "end_saved") =>
         /\ proc'[p].processedCount = proc[p].processedCount + Written
         /\ proc'[p].skippedCount =
              proc[p].skippedCount + Len(proc[p].batch) - Written]_vars

\* C10: a call one of whose batch writes failed with an error other than
\* 11000 before the call settled never resolves.
C10_WriteFailureRejects ==
  \A p \in Procs : proc[p].writeFailed => proc[p].pc # "resolved"

\* C11: no call has two batch writes in flight, and its buffer never holds
\* more than chunkSize rows.
C11_OneWriteBoundedBuffer ==
  \A p \in Procs :
    /\ Len(proc[p].pending) <= 1
    /\ Len(proc[p].batch) <= ChunkSize

\* the only call ever started
OnlyCall(p) == \A q \in Procs \ {p} : proc[q].pc = "idle"

\* C12: when the only call resolves with processed >= 1, the user stamped on
\* its rows has daily and monthly aggregate rows.
C12_RebuiltForEffectiveUser ==
  [][\A p \in Procs :
       (/\ OnlyCall(p)
        /\ proc[p].pc \notin {"idle", "resolved"}
        /\ proc'[p].pc = "resolved"
        /\ proc'[p].processed >= 1) =>
         /\ FindAggregates(aggregates', proc[p].userId, "daily") # {}
         /\ FindAggregates(aggregates', proc[p].userId, "monthly") # {}]_vars

\* C13: a call that has not settled and has input left to read can take a
\* further step, as long as the server process runs.
C13_RunCanProceed ==
  \A p \in Procs :
    (/\ ServerUp
     /\ proc[p].pc \notin {"idle", "resolved", "rejected"}
     /\ proc[p].unread # <<>>) =>
      ENABLED RunStep(p)

\* C14: a stream-level error of a streaming call stores the job failed with
\* one more error entry and rejects the call with the stream error.
C14_StreamErrorRejects ==
  [][\A p \in Procs :
       (/\ proc[p].pc = "streaming"
        /\ proc'[p].pc # "streaming"
        /\ faults' = faults + 1) =>
         /\ proc'[p].pc = "rejected"
         /\ proc'[p].result = "StreamError"
         /\ jobs'[proc[p].jobId].status = "failed"
         /\ jobs'[proc[p].jobId].errors = jobs[proc[p].jobId].errors + 1]_vars

\* C15: no stored job holds more error entries than the cap.
C15_ErrorsCapped ==
  \A j \in JobIds : jobs[j].errors <= MaxStoredErrors

\* ================================================= anomaly detection
\* detectAnomalies (src/unnamed/part_004, lines 484-624).
\*
\* A z-score is kept exact: with n points of sum S, W = sum of (n*c - S)^2,
\* mean = S / n, variance = W / n^3 and, for a point of cost c,
\* zScore^2 = n * (n*c - S)^2 / W.  A threshold is a fraction <<p, q>>.

\* a threshold of 2
LowerThreshold == <<2, 1>>

\* threshold = 2.5
DefaultThreshold == <<5, 2>>
Thresholds == {<<2, 1>>, DefaultThreshold, <<3, 1>>}
\* lookbackDays = 30
LookbackDays == 30
\* the day of "new Date()" when a run starts
Todays == {18, 40}
\* .limit(100) of the annotation query, scaled down to AnnotateLimit
AnnotateLimit == 1

\* ------------------------------------------------------ billing histories
Item(u, day, acct, c, rid) ==
  [ userId |-> u, resourceId |-> rid, usageStartDate |-> day,
    accountId |-> acct, service |-> "EC2", region |-> "us-east-1",
    cost |-> c ]

\* one line item a day from day `first` on, with the costs given
Series(u, acct, first, costs) ==
  {Item(u, first + i - 1, acct, costs[i], first + i - 1) : i \in 1..Len(costs)}

Rep(n, c) == [i \in 1..n |-> c]

\* n days of cost 100 and then one day of cost 400
OneSpike(u, acct, n) == Series(u, acct, 1, Rep(n, 100) \o <<400>>)

Histories ==
  { OneSpike("u1", "a1", 5),
    OneSpike("u1", "a1", 6),
    OneSpike("u1", "a1", 7),
    OneSpike("u1", "a1", 9),
    OneSpike("u1", "a1", 10),
    OneSpike("u1", "a1", 16),
    OneSpike("u1", "a1", 17),
    Series("u1", "a1", 1, Rep(7, 100)),
    \* line items stored before line items had owners
    OneSpike(NoUser, "a1", 7),
    Series("u1", "a1", 1, Rep(7, 400) \o <<100>>),
    \* two groups with a spike each; the spike days hold further line items
    OneSpike("u1", "a1", 7) \cup Series("u1", "a2", 2, <<400>> \o Rep(7, 100))
      \cup {Item("u1", 8, "a1", 50, 108), Item("u2", 8, "a1", 60, 208)},
    \* two groups of four and three points
    Series("u1", "a1", 1, <<100, 100, 100, 400>>)
      \cup Series("u1", "a2", 1, <<100, 100, 400>>),
    \* two users with the same account, service and region
    Series("u1", "a1", 1, Rep(4, 100))
      \cup Series("u2", "a1", 5, <<100, 100, 100, 400>>) }

\* the daily aggregates of every user, as aggregateData builds them
RebuiltAggregates(store) ==
  SetToBag(UNION {dailyAggregates(store, u) : u \in Users})

\* ------------------------------------------------------------ statistics
RECURSIVE SumScaledDev(_, _, _, _)
SumScaledDev(B, S, n, sum) ==
  IF S = {} THEN 0
  ELSE LET e == CHOOSE x \in S : TRUE
           d == n * e.totalCost - sum
       IN B[e] * d * d + SumScaledDev(B, S \ {e}, n, sum)

\* lines 562-565: costs.length, the sum behind the mean (mean = sum / n) and
\* the variance (variance = dev / n^3) of a group of points
GroupStats(B) ==
  LET n == BagSize(B)
      sum == SumTotalCost(B, DOMAIN B)
  IN [ n |-> n, sum |-> sum, dev |-> SumScaledDev(B, DOMAIN B, n, sum) ]

\* zScore >= limit
zScoreAtLeast(st, cost, limit) ==
  limit[2] * limit[2] * st.n * (st.n * cost - st.sum) * (st.n * cost - st.sum)
     >= limit[1] * limit[1] * st.dev

\* lines 571 and 573: zScore > limit for a point of a group with stats st
\* and limit = p / q: zScore^2 = n * (n*cost - sum)^2 / dev > p^2 / q^2
zScoreAbove(st, cost, limit) ==
  limit[2] * limit[2] * st.n * (st.n * cost - st.sum) * (st.n * cost - st.sum)
     > limit[1] * limit[1] * st.dev

\* line 579
severityOf(st, cost) ==
  IF zScoreAbove(st, cost, <<4, 1>>) THEN "critical"
  ELSE IF zScoreAbove(st, cost, <<3, 1>>) THEN "high"
  ELSE "medium"

GroupKey(a) == <<a.accountId, a.service, a.region>>

\* lines 570-594: the anomaly of a point of a group, if it is one
anomalyOf(agg, st, options) ==
  [ type |-> IF st.n * agg.totalCost > st.sum THEN "spike" ELSE "drop",
    severity |-> severityOf(st, agg.totalCost),
    userId |-> options.userId,
    accountId |-> agg.accountId,
    service |-> agg.service,
    region |-> agg.region,
    date |-> agg.date,
    cost |-> agg.totalCost,
    expectedCost |-> <<st.sum, st.n>>,
    zScore |-> <<st.n * (st.n * agg.totalCost - st.sum)
                      * (st.n * agg.totalCost - st.sum), st.dev>> ]

\* lines 549-556: the points of one group
GroupOf(points, k) ==
  [b \in {a \in DOMAIN points : GroupKey(a) = k} |-> points[b]]

FirstDate(G) ==
  CHOOSE d \in {a.date : a \in DOMAIN G} : \A a \in DOMAIN G : d <= a.date

\* lines 561-595 for one group: its points in date order (the query sorts by
\* date), one anomaly for every point with zScore > threshold; a group with
\* stdDev = 0 is skipped
RECURSIVE groupAnomalies(_, _, _)
groupAnomalies(G, st, options) ==
  IF DOMAIN G = {} THEN <<>>
  ELSE LET a == CHOOSE x \in DOMAIN G : \A y \in DOMAIN G : x.date <= y.date
           rest == [y \in DOMAIN G \ {a} |-> G[y]]
           hit == st.dev # 0 /\ zScoreAbove(st, a.totalCost, options.threshold)
       IN (IF hit THEN Rep(G[a], anomalyOf(a, st, options)) ELSE <<>>)
            \o groupAnomalies(rest, st, options)

\* lines 548-595: the anomalies array; the groups come in the order of
\* their first point
RECURSIVE detectGroups(_, _, _)
detectGroups(points, keys, options) ==
  IF keys = {} THEN <<>>
  ELSE LET k == CHOOSE x \in keys : \A y \in keys :
                  FirstDate(GroupOf(points, x)) <= FirstDate(GroupOf(points, y))
           G == GroupOf(points, k)
       IN groupAnomalies(G, GroupStats(G), options)
            \o detectGroups(points, keys \ {k}, options)

\* ------------------------------------------------------------ the queries
\* date: {$gte: startDate, $lte: endDate}; startDate is "now" minus
\* lookbackDays, documents are dated at the start of their day
InWindow(day, today) == day > today - LookbackDays /\ day <= today

\* a filter on userId that every document passes
OwnerMatchesAny(owner, d) == TRUE

\* a filter `userId: options.userId`.  Without options.userId the filter is
\* `userId: undefined`, which the driver sends as null: the documents
\* without an owner match
OwnerMatches(owner, d) == owner = d.userId

\* lines 496-509: Aggregate.find(query); userId and accountId are part of
\* the query only when the option is given
AggregateQuery(store, d) ==
  LET hits == {e \in DOMAIN store :
                 /\ e.aggregationType = "daily"
                 /\ InWindow(e.date, d.today)
                 /\ d.userId # NoUser => e.userId = d.userId
                 /\ d.accountId # "" => e.accountId = d.accountId}
  IN [e \in hits |-> store[e]]

\* lines 512-542: the line items of the window, summed by day, account,
\* service and region
FallbackPoints(store, d) ==
  LET hits == {e \in DOMAIN store :
                 /\ OwnerMatches(e.userId, d)
                 /\ InWindow(e.usageStartDate, d.today)
                 /\ d.accountId # "" => e.accountId = d.accountId}
      keys == {<<e.usageStartDate, e.accountId, e.service, e.region>> : e \in hits}
  IN SetToBag({ [ date |-> k[1], accountId |-> k[2], service |-> k[3],
                  region |-> k[4],
                  totalCost |-> SumCost(store, {e \in hits :
                     <<e.usageStartDate, e.accountId, e.service, e.region>> = k}) ]
                : k \in keys })

\* lines 604-613: the line items an anomaly's annotation query matches
AnnotationMatches(store, a, d) ==
  {e \in DOMAIN store :
     /\ OwnerMatches(e.userId, d)
     /\ e.accountId = a.accountId
     /\ e.service = a.service
     /\ e.region = a.region
     /\ e.usageStartDate = a.date}

\* ---------------------------------------------------------- detectAnomalies
\* lines 484-505: the call; the options are read, the query is built
DetectStarted(u, acct, t, today) ==
  [ pc |-> "aggregates", op |-> "detect", userId |-> u,
    accountId |-> acct, threshold |-> t, today |-> today,
    reads |-> {}, emitted |-> <<>>, next |-> 0, found |-> {} ]

DetectCall(u, acct, t, today) ==
  /\ det.pc = "idle"
  /\ det' = DetectStarted(u, acct, t, today)
  /\ UNCHANGED <<uniqueIdx, jobs, lineItems, aggregates, proc, nightly, faults,
                 raw, scheduler,
                 anomalies, recommendations, marks, strictQuery>>

\* the scan of the groups without the guard on the number of points
ComputedUnguarded(d, points) ==
  LET list == detectGroups(points, {GroupKey(a) : a \in DOMAIN points}, d)
  IN IF list = <<>> THEN [d EXCEPT !.pc = "returned"]
     ELSE [d EXCEPT !.pc = "insert", !.emitted = list]

\* lines 544-595: the guard on the number of points and the scan of the
\* groups, up to the next await or the return
Computed(d, points) ==
  IF BagSize(points) < MinPoints THEN [d EXCEPT !.pc = "returned"]
  ELSE LET list == detectGroups(points, {GroupKey(a) : a \in DOMAIN points}, d)
       IN IF list = <<>> THEN [d EXCEPT !.pc = "returned"]
          ELSE [d EXCEPT !.pc = "insert", !.emitted = list]

\* lines 507-509: the daily aggregates have been read
DetectAggregates(fails) ==
  /\ det.pc = "aggregates"
  /\ LET d == [det EXCEPT !.reads = @ \cup {"Aggregate"}]
         points == AggregateQuery(aggregates, d)
     IN det' = IF fails THEN [det EXCEPT !.pc = "rejected"]
               ELSE IF DOMAIN points = {} THEN [d EXCEPT !.pc = "fallback"]
               ELSE Computed(d, points)
  /\ UNCHANGED <<uniqueIdx, jobs, lineItems, aggregates, proc, nightly, faults,
                 raw, scheduler,
                 anomalies, recommendations, marks, strictQuery>>

\* lines 512-542: no aggregates: the line items have been read
DetectFallback(fails) ==
  /\ det.pc = "fallback"
  /\ LET d == [det EXCEPT !.reads = @ \cup {"BillingLineItem"}]
     IN det' = IF fails THEN [det EXCEPT !.pc = "rejected"]
               ELSE Computed(d, FallbackPoints(lineItems, d))
  /\ UNCHANGED <<uniqueIdx, jobs, lineItems, aggregates, proc, nightly, faults,
                 raw, scheduler,
                 anomalies, recommendations, marks, strictQuery>>

RECURSIVE SeqToBag(_)
SeqToBag(s) ==
  IF s = <<>> THEN EmptyBag ELSE SetToBag({Head(s)}) (+) SeqToBag(Tail(s))

\* line 599: Anomaly.insertMany(anomalies, {ordered: false})
DetectInsert(fails) ==
  /\ det.pc = "insert"
  /\ IF fails
     THEN /\ det' = [det EXCEPT !.pc = "rejected"]
          /\ UNCHANGED anomalies
     ELSE /\ anomalies' = anomalies (+) SeqToBag(det.emitted)
          /\ det' = [det EXCEPT !.pc = "find", !.next = 1]
  /\ UNCHANGED <<uniqueIdx, jobs, lineItems, aggregates, proc, nightly, faults,
                 raw, scheduler,
                 recommendations, marks, strictQuery>>

\* the loop of lines 602-620 goes to the next anomaly, or detect returns
NextAnomaly(d) ==
  IF d.next = Len(d.emitted) THEN [d EXCEPT !.pc = "returned", !.found = {}]
  ELSE [d EXCEPT !.pc = "find", !.next = @ + 1, !.found = {}]

\* lines 603-613: BillingLineItem.find(...).limit(100).select('_id') for the
\* anomaly at hand: the query returns F, any AnnotateLimit of the documents
\* that match, or all of them when they are fewer
DetectFind(fails) ==
  LET a == det.emitted[det.next]
      hits == AnnotationMatches(lineItems, a, det)
      d == [det EXCEPT !.reads = @ \cup {"BillingLineItem"}]
  IN /\ det.pc = "find"
     /\ \E F \in SUBSET hits :
          /\ Cardinality(F) = Min(AnnotateLimit, Cardinality(hits))
          /\ det' = IF fails THEN [det EXCEPT !.pc = "rejected"]
                    ELSE IF F = {} THEN NextAnomaly(d)
                    ELSE [d EXCEPT !.pc = "update", !.found = F]
     /\ UNCHANGED <<uniqueIdx, jobs, lineItems, aggregates, proc, nightly, faults,
                 raw, scheduler,
                    anomalies, recommendations, marks, strictQuery>>

\* lines 615-619: updateMany sets isAnomaly and anomalyScore of the documents
\* found
DetectUpdate(fails) ==
  LET a == det.emitted[det.next]
  IN /\ det.pc = "update"
     /\ IF fails
        THEN /\ det' = [det EXCEPT !.pc = "rejected"]
             /\ UNCHANGED marks
        ELSE /\ marks' = {m \in marks : m[1] \notin det.found}
                           \cup {<<e, a.zScore>> : e \in det.found}
             /\ det' = NextAnomaly(det)
     /\ UNCHANGED <<uniqueIdx, jobs, lineItems, aggregates, proc, nightly, faults,
                 raw, scheduler,
                    anomalies, recommendations, strictQuery>>

\* ------------------------------------------------- the analysis passes
InitDetect ==
  /\ uniqueIdx = FALSE
  /\ jobs = [j \in JobIds |-> NoJob]
  /\ \E h \in Histories, rebuilt \in BOOLEAN :
       /\ lineItems = SetToBag(h)
       /\ aggregates = IF rebuilt THEN RebuiltAggregates(SetToBag(h))
                       ELSE EmptyBag
  /\ proc = [p \in Procs |-> IdleProc]
  /\ nightly = IdleNightly
  /\ faults = 0
  /\ QuietAnalysis

DetectNext ==
  \/ \E u \in Users \cup {NoUser}, acct \in {"", "a1"}, t \in Thresholds,
        today \in Todays : DetectCall(u, acct, t, today)
  \/ \E fails \in BOOLEAN : DetectAggregates(fails)
  \/ \E fails \in BOOLEAN : DetectFallback(fails)
  \/ \E fails \in BOOLEAN : DetectInsert(fails)
  \/ \E fails \in BOOLEAN : DetectFind(fails)
  \/ \E fails \in BOOLEAN : DetectUpdate(fails)

DetectSpec == InitDetect /\ [][DetectNext]_vars

\* ============================================= recommendation generation
\* generateRecommendations and its six detectors (schedulerService.js,
\* lines 114-529).  Amounts are counted in units of which Dollar make one
\* dollar.  A fraction is a pair <<p, q>>.
Dollar == 2

\* the calls of generateRecommendations one after the other, at most
MaxCalls == 2

\* a line item as the normalizer stores it; service is the product name,
\* usageTypeNormalized equals usageType
Doc(u, day, acct, svc, utype, c, rid) ==
  [ userId |-> u, resourceId |-> rid, usageStartDate |-> day,
    accountId |-> acct, service |-> svc, region |-> "us-east-1",
    usageType |-> utype, cost |-> c ]

\* one line item a day, of the same cost, on the days from..to
Daily(u, acct, svc, utype, c, from, to) ==
  {Doc(u, d, acct, svc, utype, c, d) : d \in from..to}

Portfolios ==
  { \* a function that costs half a dollar a day, for seven days
    Daily("u1", "a1", "Lambda", "Requests", 1, 12, 18),
    Daily("u1", "a1", "Lambda", "Requests", 1, 1, 7),
    \* six cheap days and a day of a dollar and a half
    Daily("u1", "a1", "Lambda", "Requests", 1, 12, 17)
      \cup {Doc("u1", 18, "a1", "Lambda", "Requests", 3, 18)},
    \* two users
    Daily("u1", "a1", "Lambda", "Requests", 1, 12, 18)
      \cup Daily("u2", "a2", "Lambda", "Requests", 1, 12, 18),
    \* instances, an elastic IP, a volume and a bucket
    { Doc("u1", 12, "a1", "EC2", "BoxUsage", 30, 1),
      Doc("u1", 13, "a1", "EC2", "BoxUsage", 30, 2),
      Doc("u1", 12, "a1", "EC2", "ElasticIP", 4, 3),
      Doc("u1", 12, "a1", "EBS", "VolumeUsage", 6, 4),
      Doc("u1", 12, "a1", "S3", "StandardStorage", 120, 5) },
    { Doc("u1", 5, "a1", "EC2", "BoxUsage", 30, 1),
      Doc("u1", 6, "a1", "EC2", "BoxUsage", 30, 2),
      Doc("u1", 5, "a1", "S3", "StandardStorage", 120, 5) },
    \* a steady monthly spend on instances
    { Doc("u1", 1, "a1", "EC2", "BoxUsage", 1100, 1),
      Doc("u1", 3, "a1", "EC2", "BoxUsage", 1000, 1) } }

\* the daily and the monthly aggregates of every user, as aggregateData and
\* computeMonthlyAggregates build them
RebuiltAll(store) ==
  LET daily == RebuiltAggregates(store)
  IN daily (+) SetToBag(UNION {monthlyMap(daily, u) : u \in Users})

\* ------------------------------------------------------------ the queries
\* lines 125-130: query = {userId, usageStartDate: {$gte, $lte}} and the
\* accountId when given, on the line items
LineItemQuery(store, d) ==
  {e \in DOMAIN store :
     /\ e.userId = d.userId
     /\ InWindow(e.usageStartDate, d.today)
     /\ d.accountId # "" => e.accountId = d.accountId}

\* the same query on the aggregates, which have no usageStartDate: in
\* strict mode mongoose removes the key, so no window applies; otherwise no
\* document matches it
AggregateRows(store, d, type) ==
  {e \in DOMAIN store :
     /\ e.userId = d.userId
     /\ strictQuery
     /\ d.accountId # "" => e.accountId = d.accountId
     /\ e.aggregationType = type}

\* a recommendation; rid = 0 stands for no resourceId, subject is what the
\* title names besides the type
Recommend(type, priority, acct, svc, region, rid, subject, cost, savings, pct) ==
  [ type |-> type, priority |-> priority, accountId |-> acct,
    service |-> svc, region |-> region, resourceId |-> rid,
    title |-> <<type, subject>>, currentCost |-> cost,
    estimatedSavings |-> savings, estimatedSavingsPercent |-> pct ]

\* ---------------------------------------------------------- the detectors
\* lines 167-241: instances (BoxUsage) by account and instance type
detectRightsizingOpportunities(store, d) ==
  LET ec2Items == {e \in LineItemQuery(store, d) :
                     e.service = "EC2" /\ e.usageType = "BoxUsage"}
      keys == {<<e.accountId, e.usageType>> : e \in ec2Items}
      group(k) == {e \in ec2Items : <<e.accountId, e.usageType>> = k}
  IN { Recommend("rightsizing", "medium", k[1], "EC2", "", 0, k[2],
                 <<SumCost(store, group(k)), 1>>,
                 <<3 * SumCost(store, group(k)), 10>>, 30)
       : k \in {x \in keys :
                  /\ SumCost(store, group(x)) > 10 * Dollar
                  /\ SumCount(store, group(x)) > 1
                  /\ SumCost(store, group(x))
                       < 50 * Dollar * SumCount(store, group(x))} }

\* lines 247-297: the monthly cost of instances by account; with n rows of
\* sum S: avg = S / n > 500, and stdDev / avg < 0.2 iff 25 * dev < n * S^2
detectRIOpportunities(store, d) ==
  LET ec2Items == {e \in AggregateRows(store, d, "monthly") : e.service = "EC2"}
      accounts == {e.accountId : e \in ec2Items}
      st(a) == GroupStats([e \in {x \in ec2Items : x.accountId = a} |-> store[e]])
  IN { Recommend("reserved_instance", "high", a, "EC2", "", 0, "",
                 <<st(a).sum, st(a).n>>, <<st(a).sum, 2 * st(a).n>>, 50)
       : a \in {x \in accounts :
                  /\ st(x).sum > 500 * Dollar * st(x).n
                  /\ 25 * st(x).dev < st(x).n * st(x).sum * st(x).sum} }

\* lines 303-354: volumes by account and resource
detectUnattachedEBS(store, d) ==
  LET ebsItems == {e \in LineItemQuery(store, d) :
                     e.service = "EBS" /\ e.usageType = "VolumeUsage"}
      keys == {<<e.accountId, e.resourceId>> : e \in ebsItems}
      total(k) == SumCost(store, {e \in ebsItems :
                                    <<e.accountId, e.resourceId>> = k})
  IN { Recommend("unattached_ebs", "medium", k[1], "EBS", "", k[2], "",
                 <<total(k), 1>>, <<total(k), 1>>, 100)
       : k \in {x \in keys : total(x) > 0 /\ total(x) < 5 * Dollar} }

\* lines 359-407: elastic IPs by account and resource
detectUnattachedEIP(store, d) ==
  LET eipItems == {e \in LineItemQuery(store, d) :
                     e.service = "EC2" /\ e.usageType = "ElasticIP"}
      keys == {<<e.accountId, e.resourceId>> : e \in eipItems}
      total(k) == SumCost(store, {e \in eipItems :
                                    <<e.accountId, e.resourceId>> = k})
  IN { Recommend("unattached_eip", "low", k[1], "EC2", "", k[2], "",
                 <<total(k), 1>>, <<total(k), 1>>, 100)
       : k \in {x \in keys : total(x) > 0} }

\* lines 412-464: storage by account and usage type
detectStorageTieringOpportunities(store, d) ==
  LET s3Items == {e \in LineItemQuery(store, d) : e.service = "S3"}
      keys == {<<e.accountId, e.usageType>> : e \in s3Items}
      total(k) == SumCost(store, {e \in s3Items :
                                    <<e.accountId, e.usageType>> = k})
  IN { Recommend("storage_tiering", "medium", k[1], "S3", "", 0, "",
                 <<total(k), 1>>, <<total(k), 2>>, 50)
       : k \in {x \in keys : x[2] = "StandardStorage" /\ total(x) > 50 * Dollar} }

\* lines 469-524: daily aggregates below a dollar by account, service and
\* region; a group of at least 7 such days
detectIdleResources(store, d) ==
  LET lowUsageItems == {e \in AggregateRows(store, d, "daily") :
                          e.totalCost > 0 /\ e.totalCost < Dollar}
      keys == {GroupKey(e) : e \in lowUsageItems}
      group(k) == {e \in lowUsageItems : GroupKey(e) = k}
  IN { Recommend("idle_resource_cleanup", "medium", k[1], k[2], k[3], 0, k[2],
                 <<SumTotalCost(store, group(k)), 1>>,
                 <<SumTotalCost(store, group(k)), 1>>, 100)
       : k \in {x \in keys : SumCount(store, group(x)) >= 7} }

\* lines 131-147: the detectors in the order of their calls
Detectors ==
  <<"rightsizing", "reserved_instance", "unattached_ebs", "unattached_eip",
    "storage_tiering", "idle_resource_cleanup">>

DetectorResult(i, d) ==
  CASE i = 1 -> detectRightsizingOpportunities(lineItems, d)
    [] i = 2 -> detectRIOpportunities(aggregates, d)
    [] i = 3 -> detectUnattachedEBS(lineItems, d)
    [] i = 4 -> detectUnattachedEIP(lineItems, d)
    [] i = 5 -> detectStorageTieringOpportunities(lineItems, d)
    [] OTHER -> detectIdleResources(aggregates, d)

DetectorReads(i) == IF i \in {2, 6} THEN "Aggregate" ELSE "BillingLineItem"

\* ------------------------------------------------- generateRecommendations
\* the calls made so far, and what the last call that returned was given and
\* returned
CallsMade == IF det.pc = "idle" THEN 0 ELSE det.calls

LastReturned ==
  IF det.pc = "idle" THEN <<>>
  ELSE IF det.pc = "returned"
       THEN <<[userId |-> det.userId, accountId |-> det.accountId,
               today |-> det.today, list |-> det.list]>>
       ELSE det.last

\* lines 114-129: the call; without userId it throws, otherwise the query is
\* built and the first detector is called.  A call follows the one before.
GenerateStarted(u, acct, today, calls, last) ==
  [ pc |-> IF u = NoUser THEN "rejected" ELSE "detector",
    op |-> "generate", userId |-> u, accountId |-> acct,
    today |-> today, reads |-> {}, at |-> 1, list |-> {},
    calls |-> calls, last |-> last ]

GenerateCall(u, acct, today) ==
  /\ det.pc \in {"idle", "returned", "rejected"}
  /\ CallsMade < MaxCalls
  /\ det.pc # "idle" => today >= det.today
  /\ det' = GenerateStarted(u, acct, today, CallsMade + 1, LastReturned)
  /\ UNCHANGED <<uniqueIdx, jobs, lineItems, aggregates, proc, nightly, faults,
                 raw, scheduler,
                 anomalies, recommendations, marks, strictQuery>>

\* lines 131-147: the query of the detector at hand has returned; its
\* recommendations join the list.  After the last detector an empty list is
\* returned as it is.
GenerateDetector(fails) ==
  LET list == det.list \cup DetectorResult(det.at, det)
      d == [det EXCEPT !.reads = @ \cup {DetectorReads(det.at)}, !.list = list]
  IN /\ det.pc = "detector"
     /\ det' = IF fails THEN [det EXCEPT !.pc = "rejected"]
               ELSE IF det.at < Len(Detectors) THEN [d EXCEPT !.at = @ + 1]
               ELSE IF list = {} THEN [d EXCEPT !.pc = "returned"]
               ELSE [d EXCEPT !.pc = "save"]
     /\ UNCHANGED <<uniqueIdx, jobs, lineItems, aggregates, proc, nightly, faults,
                 raw, scheduler,
                    anomalies, recommendations, marks, strictQuery>>

\* the documents a run stores: its list, each with the userId
Rows(d) == SetToBag({[userId |-> d.userId, rec |-> r] : r \in d.list})

\* a save that replaces the user's recommendations of earlier runs
GenerateSaveReplace(fails) ==
  /\ det.pc = "save"
  /\ IF fails
     THEN /\ det' = [det EXCEPT !.pc = "rejected"]
          /\ UNCHANGED recommendations
     ELSE /\ recommendations' = Rows(det)
          /\ det' = [det EXCEPT !.pc = "returned"]
  /\ UNCHANGED <<uniqueIdx, jobs, lineItems, aggregates, proc, nightly, faults,
                 raw, scheduler,
                 anomalies, marks, strictQuery>>

\* lines 150-159: Recommendation.insertMany of the list, each with the userId
GenerateSave(fails) ==
  /\ det.pc = "save"
  /\ IF fails
     THEN /\ det' = [det EXCEPT !.pc = "rejected"]
          /\ UNCHANGED recommendations
     ELSE /\ recommendations' = recommendations (+) Rows(det)
          /\ det' = [det EXCEPT !.pc = "returned"]
  /\ UNCHANGED <<uniqueIdx, jobs, lineItems, aggregates, proc, nightly, faults,
                 raw, scheduler,
                 anomalies, marks, strictQuery>>

InitGenerate ==
  /\ uniqueIdx = FALSE
  /\ jobs = [j \in JobIds |-> NoJob]
  /\ \E h \in Portfolios, rebuilt \in BOOLEAN :
       /\ lineItems = SetToBag(h)
       /\ aggregates = IF rebuilt THEN RebuiltAll(SetToBag(h)) ELSE EmptyBag
  /\ proc = [p \in Procs |-> IdleProc]
  /\ nightly = IdleNightly
  /\ faults = 0
  /\ anomalies = EmptyBag
  /\ recommendations = EmptyBag
  /\ marks = {}
  /\ strictQuery \in BOOLEAN
  /\ det = NoCall
  /\ raw = NoRow
  /\ scheduler = NoScheduler

GenerateNext ==
  \/ \E u \in Users \cup {NoUser}, acct \in {"", "a1"}, today \in Todays :
        GenerateCall(u, acct, today)
  \/ \E fails \in BOOLEAN : GenerateDetector(fails)
  \/ \E fails \in BOOLEAN : GenerateSave(fails)

GenerateSpec == InitGenerate /\ [][GenerateNext]_vars

\* ------------------------------------------------------------------ C16
\* C16: an anomaly run or a recommendation run called with no userId has
\* failed as soon as the call is made, and has touched nothing: it has read
\* no collection, and no Anomaly, Recommendation or line-item annotation
\* exists because of it.
C16_NoUserFailsFast ==
  (det.pc # "idle" /\ det.userId = NoUser) =>
     /\ det.pc = "rejected"
     /\ det.reads = {}
     /\ anomalies = EmptyBag
     /\ recommendations = EmptyBag
     /\ marks = {}

\* ------------------------------------------------------------------ C17
\* the data points a detect run finds: the daily aggregates of its query or,
\* when there are none, the days of the line items
PointsFound(d) ==
  IF DOMAIN AggregateQuery(aggregates, d) # {} THEN AggregateQuery(aggregates, d)
  ELSE FallbackPoints(lineItems, d)

DetectRunning == det.pc # "idle" /\ det.op = "detect"

\* C17: a detect run that finds fewer than 7 data points in total emits
\* nothing and returns at once: it never reaches the insert or the
\* annotation, no Anomaly is persisted and no line item is annotated.
C17_FewPointsNoEffect ==
  (DetectRunning /\ BagSize(PointsFound(det)) < MinPoints) =>
     /\ det.pc \in {"aggregates", "fallback", "returned", "rejected"}
     /\ det.emitted = <<>>
     /\ anomalies = EmptyBag
     /\ marks = {}

\* a run has returned with fewer than 7 points, one of them beyond the
\* threshold of its group
C17_ReturnedEarly ==
  /\ DetectRunning
  /\ det.pc = "returned"
  /\ BagSize(PointsFound(det)) < MinPoints
  /\ detectGroups(PointsFound(det),
                  {GroupKey(a) : a \in DOMAIN PointsFound(det)}, det) # <<>>

\* ------------------------------------------------------------------ C18
\* the points of the run are one group of seven days with the costs
\* 100, 100, 100, 100, 100, 100, 400, and the threshold is the default
SixAndSpike ==
  /\ DetectRunning
  /\ det.threshold = DefaultThreshold
  /\ det.pc \in {"returned", "insert", "find", "update"}
  /\ LET P == PointsFound(det)
     IN /\ BagSize(P) = 7
        /\ Cardinality({GroupKey(a) : a \in DOMAIN P}) = 1
        /\ SumCount(P, {a \in DOMAIN P : a.totalCost = 100}) = 6
        /\ SumCount(P, {a \in DOMAIN P : a.totalCost = 400}) = 1

\* C18 as the spec states it: the point 400 is flagged as a spike of
\* severity medium.
C18_SpikeFlagged ==
  SixAndSpike =>
    \E i \in 1..Len(det.emitted) :
       /\ det.emitted[i].cost = 400
       /\ det.emitted[i].type = "spike"
       /\ det.emitted[i].severity = "medium"

\* C18: for seven daily costs 100 x 6 and 400 with the default threshold
\* 2.5, detect flags nothing: 4 * (cost - mean)^2 = 12960000 / 49 is below
\* 25 * variance = 13500000 / 49 (zScore = sqrt(6)); the run returns an
\* empty list and persists nothing.
C18_SpikeBelowThreshold ==
  SixAndSpike =>
    /\ det.pc = "returned"
    /\ det.emitted = <<>>
    /\ anomalies = EmptyBag

\* such a run has ended
C18_SevenPointRun == SixAndSpike /\ det.reads # {}

\* ------------------------------------------------------------------ C19
RECURSIVE SumSquares(_, _)
SumSquares(B, S) ==
  IF S = {} THEN 0
  ELSE LET e == CHOOSE x \in S : TRUE
       IN B[e] * e.totalCost * e.totalCost + SumSquares(B, S \ {e})

\* the group of point a among the points P: n points of sum s, with
\* n^2 * (population variance) = n * (sum of squares) - s^2
PopulationOf(P, a) ==
  LET G == GroupOf(P, GroupKey(a))
      n == BagSize(G)
      s == SumTotalCost(G, DOMAIN G)
  IN [ n |-> n, s |-> s, v |-> n * SumSquares(G, DOMAIN G) - s * s ]

\* |cost - mean| / stddev > p / q, i.e. q^2 * (n*cost - s)^2 > p^2 * v
Beyond(g, cost, p, q) ==
  q * q * (g.n * cost - g.s) * (g.n * cost - g.s) > p * p * g.v

\* the run has scanned its groups: it found at least 7 points
Scanned ==
  /\ DetectRunning
  /\ det.pc \in {"returned", "insert", "find", "update"}
  /\ BagSize(PointsFound(det)) >= MinPoints

\* the anomalies emitted for point a
EmittedFor(a) ==
  {i \in 1..Len(det.emitted) :
     /\ det.emitted[i].date = a.date
     /\ det.emitted[i].cost = a.totalCost
     /\ GroupKey(det.emitted[i]) = GroupKey(a)}

\* C19: once a detect run has scanned its groups, a point has an anomaly if
\* and only if its group's population standard deviation is not zero and
\* |cost - mean| / stddev > threshold (so a group of equal costs has none);
\* the anomaly is a spike if cost > mean and a drop otherwise, its severity
\* is critical if zScore > 4, high if zScore > 3 and medium otherwise, its
\* expectedCost is the mean; nothing else is emitted.
C19_EmitsBeyondThreshold ==
  Scanned =>
    LET P == PointsFound(det)
    IN /\ \A a \in DOMAIN P :
            LET g == PopulationOf(P, a)
                out == g.v # 0 /\ Beyond(g, a.totalCost, det.threshold[1],
                                         det.threshold[2])
            IN /\ Cardinality(EmittedFor(a)) = IF out THEN P[a] ELSE 0
               /\ \A i \in EmittedFor(a) :
                    LET x == det.emitted[i]
                    IN /\ x.type = IF g.n * a.totalCost > g.s THEN "spike"
                                   ELSE "drop"
                       /\ x.severity =
                            IF Beyond(g, a.totalCost, 4, 1) THEN "critical"
                            ELSE IF Beyond(g, a.totalCost, 3, 1) THEN "high"
                            ELSE "medium"
                       /\ x.expectedCost[1] * g.n = g.s * x.expectedCost[2]
       /\ \A i \in 1..Len(det.emitted) : \E a \in DOMAIN P : i \in EmittedFor(a)

\* a scanned run emitted an anomaly of severity high for one point and
\* none for the other points of the group
C19_HighEmitted ==
  /\ Scanned
  /\ \E i \in 1..Len(det.emitted) : det.emitted[i].severity = "high"
  /\ Len(det.emitted) < BagSize(PointsFound(det))

\* ------------------------------------------------------------------ C20
\* every anomaly the run emitted is in the Anomaly collection
EmittedPersisted == SeqToBag(det.emitted) \sqsubseteq anomalies

\* the run has passed its insert: it is annotating, or the annotation has
\* ended or failed
PastInsert == DetectRunning /\ det.next >= 1

\* C20: a detect run annotates line items only when all the anomalies it
\* emitted are persisted; one anomaly annotates at most AnnotateLimit (100
\* in the code) line items, all owned by the run's user and dated on the
\* anomaly's day; and once the anomalies are persisted they stay persisted,
\* whether the annotation completes, stops part-way or fails.
C20_PersistThenAnnotate ==
  [][/\ marks' # marks =>
          /\ DetectRunning /\ EmittedPersisted
          /\ LET a == det.emitted[det.next]
                 new == {m[1] : m \in marks' \ marks}
             IN /\ Cardinality(new) <= AnnotateLimit
                /\ \A e \in new : /\ e.userId = det.userId
                                  /\ e.usageStartDate = a.date
                /\ \A m \in marks' \ marks : m[2] = a.zScore
     /\ PastInsert' => EmittedPersisted']_vars

\* the annotation of the first anomaly was cut at the limit and the
\* annotation of the second failed; both anomalies are persisted
C20_AnnotationFailed ==
  /\ PastInsert
  /\ det.userId # NoUser
  /\ det.pc = "rejected"
  /\ det.next = 2
  /\ marks # {}
  /\ Cardinality(AnnotationMatches(lineItems, det.emitted[1], det)) > AnnotateLimit
  /\ EmittedPersisted

\* ------------------------------------------------------------------ C21
\* what the claim compares of a list of recommendations
Contents(list) ==
  {<<r.type, r.title, r.currentCost, r.estimatedSavings>> : r \in list}

\* two generate calls, one after the other, for the same user and account
\* have both returned
TwoReturned ==
  /\ det.pc = "returned"
  /\ det.op = "generate"
  /\ det.last # <<>>
  /\ det.last[1].userId = det.userId
  /\ det.last[1].accountId = det.accountId

\* C21 as the spec states it: on a fixed store two consecutive generate
\* calls return the same recommendation contents.
C21_SameContents ==
  TwoReturned => Contents(det.list) = Contents(det.last[1].list)

\* C21: on a fixed store two consecutive generate calls that start on the
\* same day (their lookback windows are the same) return the same
\* recommendation contents, and the store then holds a copy of each for
\* either call; a call changes the store only by adding its own list to it,
\* so that nothing is deduplicated, overwritten or changed.
C21_SameWindowSameContents ==
  [][/\ (TwoReturned /\ det.last[1].today = det.today)' =>
          (/\ Contents(det.list) = Contents(det.last[1].list)
           /\ \A r \in det.list :
                recommendations[[userId |-> det.userId, rec |-> r]] >= 2)'
     /\ recommendations' # recommendations =>
          recommendations' = recommendations (+) Rows(det)]_vars

\* two calls on the same day returned a list that is not empty
C21_TwiceTheSame ==
  /\ TwoReturned
  /\ det.last[1].today = det.today
  /\ det.list # {}

\* ------------------------------------------------------------------ C22
\* the daily Aggregate rows of a group that a generate call should count: the
\* user's rows of the group inside the lookback window that cost more than
\* nothing and less than a dollar
IdleRows(d, k) ==
  {e \in DOMAIN aggregates :
     /\ e.userId = d.userId
     /\ e.aggregationType = "daily"
     /\ GroupKey(e) = k
     /\ d.accountId # "" => e.accountId = d.accountId
     /\ InWindow(e.date, d.today)
     /\ e.totalCost > 0 /\ e.totalCost < Dollar}

IdleEmitted(d, k) ==
  {r \in d.list : r.type = "idle_resource_cleanup"
                    /\ <<r.accountId, r.service, r.region>> = k}

\* C22: a generate call that has returned emitted an idle_resource_cleanup
\* recommendation (priority medium, 100 percent savings) for a group of
\* account, service and region exactly when the user has at least 7 daily
\* Aggregate rows of the group with 0 < totalCost < 1 within the lookback
\* window, and its currentCost is the sum of the totalCost of those rows.
C22_IdleIffSevenDaysInWindow ==
  (det.pc = "returned" /\ det.op = "generate") =>
     \A k \in {GroupKey(e) : e \in DOMAIN aggregates} :
        /\ IdleEmitted(det, k) # {}
             <=> SumCount(aggregates, IdleRows(det, k)) >= 7
        /\ \A r \in IdleEmitted(det, k) :
              /\ r.priority = "medium"
              /\ r.estimatedSavingsPercent = 100
              /\ r.currentCost = <<SumTotalCost(aggregates, IdleRows(det, k)), 1>>

\* ================================================================
\* normalizeLineItem and extractRegion on the cells of a raw row
\* (src/unnamed/part_004, lines 44-116). A cell is the sequence of its
\* characters; <<>> is a column that is missing or empty (line 53 treats
\* the two alike).
\* ================================================================
Lower ==
  {"a", "b", "c", "d", "e", "f", "g", "h", "i", "j", "k", "l", "m",
   "n", "o", "p", "q", "r", "s", "t", "u", "v", "w", "x", "y", "z"}
Digits == <<"0", "1", "2", "3", "4", "5", "6", "7", "8", "9">>
Digit == {Digits[i] : i \in 1..10}

Unknown == <<"u", "n", "k", "n", "o", "w", "n">>

\* the values of JavaScript that the normalizer handles
Undefined == [ kind |-> "undefined", s |-> <<>>, v |-> 0 ]
NaN == [ kind |-> "NaN", s |-> <<>>, v |-> 0 ]
\* a number, in hundredths
Num(v) == [ kind |-> "number", s |-> <<>>, v |-> v ]
Str(s) == [ kind |-> "string", s |-> s, v |-> 0 ]

\* undefined, NaN, 0 and '' are falsy
Truthy(x) ==
  CASE x.kind = "number" -> x.v # 0
    [] x.kind = "string" -> x.s # <<>>
    [] OTHER -> FALSE

\* a || b
Or(a, b) == IF Truthy(a) THEN a ELSE b

\* the longest run of characters of a class from position i on: the position
\* after it
RECURSIVE RunEnd(_, _, _)
RunEnd(s, i, class) ==
  IF i <= Len(s) /\ s[i] \in class THEN RunEnd(s, i + 1, class) ELSE i

RECURSIVE IntOf(_)
IntOf(ds) ==
  IF ds = <<>> THEN 0
  ELSE 10 * IntOf(SubSeq(ds, 1, Len(ds) - 1))
         + (CHOOSE n \in 0..9 : Digits[n + 1] = ds[Len(ds)])

\* parseFloat: the longest prefix that is a decimal number (a sign, digits, a
\* point, digits), NaN when there is none; what follows is ignored
parseFloat(s) ==
  LET neg == s # <<>> /\ s[1] = "-"
      from == IF neg THEN 2 ELSE 1
      dot == RunEnd(s, from, Digit)
      whole == SubSeq(s, from, dot - 1)
      end == IF dot <= Len(s) /\ s[dot] = "." THEN RunEnd(s, dot + 1, Digit)
             ELSE dot
      frac == IF end > dot THEN SubSeq(s, dot + 1, end - 1) ELSE <<>>
      cents == SubSeq(frac \o <<"0", "0">>, 1, 2)
      value == 100 * IntOf(whole) + IntOf(cents)
  IN IF whole = <<>> /\ frac = <<>> THEN NaN
     ELSE Num(IF neg THEN 0 - value ELSE value)

\* lines 100-116, first pattern:
\* /(us|eu|ap|sa|ca|cn|af)-(north|south|east|west|central)-\d/
Areas ==
  {<<"u", "s">>, <<"e", "u">>, <<"a", "p">>, <<"s", "a">>, <<"c", "a">>,
   <<"c", "n">>, <<"a", "f">>}
Directions ==
  {<<"n", "o", "r", "t", "h">>, <<"s", "o", "u", "t", "h">>,
   <<"e", "a", "s", "t">>, <<"w", "e", "s", "t">>,
   <<"c", "e", "n", "t", "r", "a", "l">>}

StartsAt(s, i, w) ==
  i + Len(w) - 1 <= Len(s) /\ SubSeq(s, i, i + Len(w) - 1) = w

\* the matches of the first pattern that start at position i
RegionAt(s, i) ==
  {SubSeq(s, i, i + Len(w)) :
     w \in {x \in {a \o <<"-">> \o d \o <<"-">> : a \in Areas, d \in Directions} :
              /\ StartsAt(s, i, x)
              /\ i + Len(x) <= Len(s)
              /\ s[i + Len(x)] \in Digit}}

\* lines 100-116, second pattern: /([a-z]{2}-[a-z]+-\d+)[a-z]/; the group
\* that a match starting at position i captures
ZoneAt(s, i) ==
  LET word == RunEnd(s, i + 3, Lower)
      number == RunEnd(s, word + 1, Digit)
  IN IF /\ i + 2 <= Len(s)
        /\ s[i] \in Lower /\ s[i + 1] \in Lower /\ s[i + 2] = "-"
        /\ word > i + 3
        /\ word <= Len(s) /\ s[word] = "-"
        /\ number > word + 1
        /\ number <= Len(s) /\ s[number] \in Lower
     THEN {SubSeq(s, i, number - 1)}
     ELSE {}

\* String.prototype.match: the match that starts first
FirstMatch(s, pattern) ==
  LET at(i) == IF pattern = "zone" THEN ZoneAt(s, i) ELSE RegionAt(s, i)
      starts == {i \in 1..Len(s) : at(i) # {}}
  IN IF starts = {} THEN {}
     ELSE at(CHOOSE i \in starts : \A j \in starts : i <= j)

\* lines 100-116
extractRegionToken(value) ==
  IF value = <<>> THEN Unknown
  ELSE IF FirstMatch(value, "region") # {}
       THEN CHOOSE m \in FirstMatch(value, "region") : TRUE
  ELSE IF FirstMatch(value, "zone") # {}
       THEN CHOOSE m \in FirstMatch(value, "zone") : TRUE
  ELSE Unknown

\* lines 51-56: a column that is present and not empty, as a string
Mapped(row, csvCol) ==
  IF row[csvCol] # <<>> THEN Str(row[csvCol]) ELSE Undefined

\* lines 67-75: if (normalized.x) normalized.x = parseFloat(normalized.x)
Parsed(x) == IF Truthy(x) THEN parseFloat(x.s) ELSE x

\* '': what is scanned when neither column has a value
EmptyString == Str(<<>>)

\* lines 44-95, the fields derived from the cells
normalizeFields(row) ==
  LET blendedCost == Parsed(Mapped(row, "BlendedCost"))
      unblendedCost == Parsed(Mapped(row, "UnblendedCost"))
  IN [ accountId |-> Or(Or(Mapped(row, "LinkedAccountId"),
                           Mapped(row, "PayerAccountId")), Str(Unknown)).s,
       region |-> extractRegionToken(
                    Or(Or(Mapped(row, "AvailabilityZone"),
                          Mapped(row, "UsageType")), EmptyString).s),
       cost |-> Or(Or(unblendedCost, blendedCost), Num(0)),
       usageTypeNormalized |-> Or(Mapped(row, "UsageType"), EmptyString).s ]

\* ---------------------------------------------------------- the raw rows
AccountCells == {<<>>, <<"a", "1">>}
PayerCells == {<<>>, <<"p", "1">>}
ZoneCells ==
  { <<>>,
    <<"u", "s", "-", "e", "a", "s", "t", "-", "1", "a">>,
    <<"m", "e", "-", "s", "o", "u", "t", "h", "-", "1", "a">>,
    <<"g", "l", "o", "b", "a", "l">> }
UsageCells ==
  { <<>>,
    <<"e", "u", "-", "w", "e", "s", "t", "-", "2", "-", "B", "o", "x">>,
    <<"B", "o", "x", "U", "s", "a", "g", "e">> }
CostCells ==
  { <<>>, <<"0">>, <<"0", ".", "0", "0">>, <<"5">>, <<"7", ".", "2", "5">>,
    <<"-", "3">>, <<"n", "/", "a">> }

CellRows ==
  { [ LinkedAccountId |-> a, PayerAccountId |-> p, UsageType |-> u,
      AvailabilityZone |-> z, BlendedCost |-> b, UnblendedCost |-> c ]
    : a \in AccountCells, p \in PayerCells, u \in UsageCells,
      z \in ZoneCells, b \in CostCells, c \in CostCells }

\* nothing has been derived yet
NoFields ==
  [ accountId |-> <<>>, region |-> <<>>, cost |-> Undefined,
    usageTypeNormalized |-> <<>> ]

\* line 44: normalizeLineItem(row, jobId) returns
NormalizeRow ==
  /\ raw.pc = "row"
  /\ raw' = [raw EXCEPT !.pc = "normalized", !.out = normalizeFields(raw.row)]
  /\ UNCHANGED <<uniqueIdx, jobs, lineItems, aggregates, proc, nightly, faults,
                 anomalies, recommendations, marks, strictQuery, det, scheduler>>

InitNormalize ==
  /\ uniqueIdx = FALSE
  /\ jobs = [j \in JobIds |-> NoJob]
  /\ lineItems = EmptyBag
  /\ aggregates = EmptyBag
  /\ proc = [p \in Procs |-> IdleProc]
  /\ nightly = IdleNightly
  /\ faults = 0
  /\ anomalies = EmptyBag
  /\ recommendations = EmptyBag
  /\ marks = {}
  /\ strictQuery = TRUE
  /\ det = NoCall
  /\ scheduler = NoScheduler
  /\ \E row \in CellRows :
       raw = [pc |-> "row", row |-> row, out |-> NoFields]

NormalizeNext == NormalizeRow

NormalizeSpec == InitNormalize /\ [][NormalizeNext]_vars

\* ------------------------------------------------------------------ C23
Present(row, col) == row[col] # <<>>

\* the cost cells of a row that have a value hold numbers
NumericCosts(row) ==
  \A col \in {"UnblendedCost", "BlendedCost"} :
     Present(row, col) => parseFloat(row[col]) # NaN

\* C23: the cost of a normalized row is the unblended cost whenever the row
\* has an unblended cost value, the value 0 included, otherwise the blended
\* cost when the row has one, otherwise 0; and a row with no account id
\* column and no number in its cost columns gets accountId "unknown" and
\* cost 0.
C23_CostByPresence ==
  raw.pc = "normalized" =>
     /\ NumericCosts(raw.row) =>
          raw.out.cost =
            IF Present(raw.row, "UnblendedCost")
              THEN parseFloat(raw.row.UnblendedCost)
            ELSE IF Present(raw.row, "BlendedCost")
              THEN parseFloat(raw.row.BlendedCost)
            ELSE Num(0)
     /\ ( /\ ~Present(raw.row, "LinkedAccountId")
          /\ ~Present(raw.row, "PayerAccountId")
          /\ parseFloat(raw.row.UnblendedCost) = NaN
          /\ parseFloat(raw.row.BlendedCost) = NaN )
          => raw.out.accountId = Unknown /\ raw.out.cost = Num(0)

\* ------------------------------------------------------------------ C24
HasToken(value) == extractRegionToken(value) # Unknown

\* C24: the region of a normalized row is the region token of its
\* availability zone if that holds one, otherwise the region token of its
\* usage type if that holds one, also when the availability zone has a value
\* without a token, otherwise "unknown".
C24_RegionFromZoneThenUsage ==
  raw.pc = "normalized" =>
     raw.out.region =
       IF HasToken(raw.row.AvailabilityZone)
         THEN extractRegionToken(raw.row.AvailabilityZone)
       ELSE IF HasToken(raw.row.UsageType)
         THEN extractRegionToken(raw.row.UsageType)
       ELSE Unknown

\* ================================================================
\* the rebuild by itself: aggregateData(jobId) as the module exports it
\* (src/unnamed/part_004, lines 266-467), on stores as earlier runs and the
\* removal of a user's line items leave them
\* ================================================================
\* lines 266-276: the call loads the job and takes the user from it
CallAggregateData(p, j) ==
  LET run == [IdleProc EXCEPT !.caller = "caller", !.jobId = j,
                              !.after = SettledCalls]
  IN /\ FreeProc(p)
     /\ proc' = Set(p, IF jobs[j].status = "none" \/ jobs[j].userId = NoUser
                       THEN Resolved(run)
                       ELSE [run EXCEPT !.pc = "agg_items",
                                        !.aggUser = jobs[j].userId])
     /\ UNCHANGED <<analysisVars, uniqueIdx, jobs, lineItems, aggregates,
                    nightly, faults>>

\* the line items of the store: none, those of one user, those of both
StoredItems ==
  { {}, RowsOf(<<1, 2>>, "u1"), RowsOf(<<3, 1, 2>>, "u2"),
    RowsOf(<<1, 2>>, "u1") \cup RowsOf(<<3, 1, 2>>, "u2") }

\* the aggregates of the store: none, or what a rebuild made of line items
\* that the store held then
StoredAggregates == {RebuiltAll(SetToBag(h)) : h \in StoredItems}

InitRebuild ==
  /\ uniqueIdx = FALSE
  /\ jobs = [j \in JobIds |->
               [NewJob(IF j = 1 THEN "u1" ELSE "u2", <<1, 2>>)
                  EXCEPT !.status = "completed", !.started = TRUE]]
  /\ \E h \in StoredItems : lineItems = SetToBag(h)
  /\ aggregates \in StoredAggregates
  /\ proc = [p \in Procs |-> IdleProc]
  /\ nightly = IdleNightly
  /\ faults = 0
  /\ QuietAnalysis

RebuildNext ==
  \/ \E p \in Procs, j \in JobIds : CallAggregateData(p, j)
  \/ \E p \in Procs : AggItems(p)
  \/ \E p \in Procs : AggDelete(p)
  \/ \E p \in Procs : AggInsert(p)
  \/ \E p \in Procs : MonFind(p)
  \/ \E p \in Procs : MonDelete(p)
  \/ \E p \in Procs : MonInsert(p)

RebuildSpec == InitRebuild /\ [][RebuildNext]_vars

\* ------------------------------------------------------------------ C25
\* the rebuild of call p ends in this step, without an error
RebuildEnds(p) ==
  /\ proc[p].pc \in {"agg_items", "agg_ins", "mon_find", "mon_ins"}
  /\ proc'[p].pc = "resolved"

\* C25: when a rebuild ends for a user who owns no line items, the user has
\* no daily and no monthly aggregate, whatever aggregates the user had
\* before the rebuild; the rebuild ends without an error.
C25_NoItemsNoAggregates ==
  [][\A p \in Procs :
       (RebuildEnds(p) /\ FindLineItems(lineItems, proc[p].aggUser) = {}) =>
          /\ FindAggregates(aggregates', proc[p].aggUser, "daily") = {}
          /\ FindAggregates(aggregates', proc[p].aggUser, "monthly") = {}]_vars

\* ================================================================
\* the scheduler and the whole nightly run (schedulerService.js, lines
\* 10-98): the job loop, then the monthly aggregates, the anomalies and the
\* recommendations
\* ================================================================
\* the tasks that startScheduler may create in a run of the model
MaxTasks == 2

\* lines 15-33: startScheduler
StartSchedulerUnguarded ==
  /\ scheduler.created < MaxTasks
  /\ scheduler' = [ handle |-> scheduler.created + 1,
                    active |-> scheduler.active \cup {scheduler.created + 1},
                    created |-> scheduler.created + 1,
                    last |-> "created" ]
  /\ UNCHANGED <<uniqueIdx, jobs, lineItems, aggregates, proc, nightly, faults,
                 anomalies, recommendations, marks, strictQuery, det, raw>>

StartScheduler ==
  /\ IF scheduler.handle # 0
     THEN scheduler' = [scheduler EXCEPT !.last = "warned"]
     ELSE /\ scheduler.created < MaxTasks
          /\ scheduler' = [ handle |-> scheduler.created + 1,
                            active |-> scheduler.active \cup {scheduler.created + 1},
                            created |-> scheduler.created + 1,
                            last |-> "created" ]
  /\ UNCHANGED <<uniqueIdx, jobs, lineItems, aggregates, proc, nightly, faults,
                 anomalies, recommendations, marks, strictQuery, det, raw>>

\* lines 38-43: stopScheduler
StopScheduler ==
  /\ scheduler' =
       IF scheduler.handle # 0
       THEN [scheduler EXCEPT !.active = @ \ {scheduler.handle},
                              !.handle = 0, !.last = "stopped"]
       ELSE [scheduler EXCEPT !.last = "nothing"]
  /\ UNCHANGED <<uniqueIdx, jobs, lineItems, aggregates, proc, nightly, faults,
                 anomalies, recommendations, marks, strictQuery, det, raw>>

\* lines 21-30: a task that is active fires and its callback starts the run
CronTick ==
  /\ scheduler.active # {}
  /\ NightlyStart

\* lines 78-80: computeMonthlyAggregates() is called without a user and
\* returns at once (part_004, lines 378-382)
NightlyMonthly ==
  /\ ServerUp
  /\ nightly.pc = "monthly"
  /\ nightly' = [nightly EXCEPT !.pc = "detect"]
  /\ UNCHANGED <<analysisVars, uniqueIdx, jobs, lineItems, aggregates, proc, faults>>

\* lines 83-86: detectAnomalies({lookbackDays: 30})
NightlyDetect(today) ==
  /\ ServerUp
  /\ nightly.pc = "detect"
  /\ nightly' = [nightly EXCEPT !.pc = "detecting"]
  /\ det' = DetectStarted(NoUser, "", DefaultThreshold, today)
  /\ UNCHANGED <<uniqueIdx, jobs, lineItems, aggregates, proc, faults,
                 anomalies, recommendations, marks, strictQuery, raw, scheduler>>

\* lines 84-87: the awaited detectAnomalies has settled; a rejection ends
\* the run
NightlyDetected ==
  /\ ServerUp
  /\ nightly.pc = "detecting"
  /\ det.pc \in {"returned", "rejected"}
  /\ nightly' = IF det.pc = "returned" THEN [nightly EXCEPT !.pc = "generate"]
                ELSE IdleNightly
  /\ UNCHANGED <<analysisVars, uniqueIdx, jobs, lineItems, aggregates, proc, faults>>

\* lines 90-93: generateRecommendations({lookbackDays: 30})
NightlyGenerate(today) ==
  /\ ServerUp
  /\ nightly.pc = "generate"
  /\ nightly' = [nightly EXCEPT !.pc = "generating"]
  /\ det' = GenerateStarted(NoUser, "", today, 1, <<>>)
  /\ UNCHANGED <<uniqueIdx, jobs, lineItems, aggregates, proc, faults,
                 anomalies, recommendations, marks, strictQuery, raw, scheduler>>

\* lines 91-98: the awaited generateRecommendations has settled and the run
\* ends, resolved or rejected
NightlyReturn ==
  /\ ServerUp
  /\ nightly.pc = "generating"
  /\ det.pc \in {"returned", "rejected"}
  /\ nightly' = IdleNightly
  /\ UNCHANGED <<analysisVars, uniqueIdx, jobs, lineItems, aggregates, proc, faults>>

\* the store when the night comes: pending jobs of uploads that were not
\* processed, and the line items and aggregates of earlier uploads
NightlyJobs ==
  { [j \in JobIds |-> IF j = 1 THEN NewJob("u1", <<1, 2>>) ELSE l]
    : l \in {NoJob, NewJob("u2", NoFile), NewJob("u2", <<3, 1, 2>>)} }

NightlyHistories ==
  { {}, OneSpike("u1", "a1", 7),
    \* line items stored before line items had owners
    OneSpike(NoUser, "a1", 7),
    OneSpike("u1", "a1", 7) \cup Series("u1", "a2", 2, <<400>> \o Rep(7, 100))
      \cup {Item("u1", 8, "a1", 50, 108), Item("u2", 8, "a1", 60, 208)} }

InitNightly ==
  /\ uniqueIdx = FALSE
  /\ jobs \in NightlyJobs
  /\ \E h \in NightlyHistories :
       /\ lineItems = SetToBag(h)
       /\ aggregates = RebuiltAll(SetToBag(h))
  /\ proc = [p \in Procs |-> IdleProc]
  /\ nightly = IdleNightly
  /\ faults = 0
  /\ QuietAnalysis

NightlyRunNext ==
  \/ StartScheduler
  \/ StopScheduler
  \/ CronTick
  \/ NightlyStart
  \/ \E p \in Procs : NightlyNext(p)
  \/ NightlyJoin
  \/ \E p \in Procs : RunStep(p)
  \/ NightlyMonthly
  \/ \E today \in Todays : NightlyDetect(today)
  \/ \E fails \in BOOLEAN : DetectAggregates(fails)
  \/ \E fails \in BOOLEAN : DetectFallback(fails)
  \/ \E fails \in BOOLEAN : DetectInsert(fails)
  \/ \E fails \in BOOLEAN : DetectFind(fails)
  \/ \E fails \in BOOLEAN : DetectUpdate(fails)
  \/ NightlyDetected
  \/ \E today \in Todays : NightlyGenerate(today)
  \/ NightlyReturn

NightlySpec == InitNightly /\ [][NightlyRunNext]_vars

\* ------------------------------------------------------------------ C26
\* the nightly run ends in this step
NightlyEnds == nightly.pc # "idle" /\ nightly'.pc = "idle"

\* C26: a nightly run goes through its four steps in order, each after the
\* one before has finished: the pending jobs (a job that fails does not end
\* the loop), the aggregates, the anomalies, the recommendations; and it ends
\* only when the fourth step has completed.  A run that ends because the
\* database failed during the detection is left aside.
C26_FourStepsInOrder ==
  [][/\ (nightly'.pc = "monthly" /\ nightly.pc # "monthly") =>
           /\ nightly.pc \in {"loop", "wait"}
           /\ Len(nightly.queue) = 1
           /\ \A p \in Procs : proc'[p].caller # "nightly"
     /\ (nightly'.pc = "detecting" /\ nightly.pc # "detecting") =>
           nightly.pc = "detect"
     /\ (nightly'.pc = "generating" /\ nightly.pc # "generating") =>
           nightly.pc = "generate" /\ det.pc = "returned" /\ det.op = "detect"
     /\ NightlyEnds =>
           \/ nightly.pc = "generating" /\ det.pc = "returned"
           \/ nightly.pc = "detecting" /\ det.pc = "rejected"]_vars

\* ------------------------------------------------------------------ C27
\* C27: at most one scheduled task is active, and it is the one the handle
\* refers to; startScheduler while a task is active only warns; otherwise it
\* creates a task that did not exist before; stopScheduler stops the task of
\* the handle and clears the handle; without a task it changes nothing.
C27_AtMostOneTask ==
  [][scheduler' # scheduler =>
       /\ Cardinality(scheduler'.active) <= 1
       /\ scheduler'.active \subseteq {scheduler'.handle}
       /\ scheduler'.last = "warned" =>
            /\ scheduler.handle # 0
            /\ scheduler' = [scheduler EXCEPT !.last = "warned"]
       /\ scheduler'.last = "created" =>
            /\ scheduler.handle = 0
            /\ scheduler'.handle \notin 0..scheduler.created
            /\ scheduler'.active = {scheduler'.handle}
       /\ scheduler'.last = "stopped" =>
            /\ scheduler.handle # 0
            /\ scheduler'.handle = 0
            /\ scheduler'.active = {}
            /\ scheduler'.created = scheduler.created
       /\ scheduler'.last = "nothing" =>
            /\ scheduler.handle = 0
            /\ scheduler' = [scheduler EXCEPT !.last = "nothing"]]_vars

\* a task was started, stopped, and a second one started
C27_FreshTaskAfterStop ==
  /\ scheduler.created = 2
  /\ scheduler.handle = 2
  /\ scheduler.active = {2}
  /\ scheduler.last = "created"

\* ------------------------------------------------------------------ C28
\* C28: a processCSVFile call that has resolved reports processed + skipped
\* = total: every data row seen was counted once, as processed or as skipped.
C28_CountsAddUp ==
  \A p \in Procs :
     proc[p].pc = "resolved" =>
        proc[p].processed + proc[p].skipped = proc[p].total

\* ---------------------------------------------------------------------------
\* on('data') against on('end'): the writes of a run and its final counters
\* ---------------------------------------------------------------------------

\* the run has computed its terminal status and counters (lines 231-246)
Finalizing(r) ==
  r.pc \in {"end_saved", "agg_items", "agg_del", "agg_ins",
            "mon_find", "mon_del", "mon_ins", "resolved"}

\* the number of rows handed to the insertMany calls still in flight
InFlightRows(r) ==
  LET upTo[i \in 0..Len(r.pending)] ==
        IF i = 0 THEN 0 ELSE upTo[i - 1] + Len(r.pending[i])
  IN upTo[Len(r.pending)]

\* C29 (first half): a run that has computed its final status and counters
\* has no batch write of its own in flight.
C29_NoWriteInFlightAtEnd ==
  \A p \in Procs : Finalizing(proc[p]) => proc[p].pending = <<>>

\* C29 (second half): no buffered row is handed to two batch writes; the
\* writes in flight never hold more rows than the run has read.
C29_EachRowInOneWrite ==
  \A p \in Procs : InFlightRows(proc[p]) <= proc[p].rowCount

\* C29: a run never finalizes its job while one of its own batch writes is in
\* flight, and every valid row buffered is part of exactly one batch write.
C29_FinalizesAfterItsWrites ==
  /\ C29_NoWriteInFlightAtEnd
  /\ C29_EachRowInOneWrite

\* ---------------------------------------------------------------------------
\* the three callers of processCSVFile on one job
\* ---------------------------------------------------------------------------

\* the processCSVFile calls on job j that have not settled
RunsOf(j) ==
  {p \in Procs : /\ proc[p].jobId = j
                 /\ proc[p].pc \notin {"idle", "resolved", "rejected", "crashed"}}

\* C30: at most one processCSVFile run is in flight for an IngestionJob,
\* whatever the interleaving of the upload route's automatic start, the manual
\* trigger and the nightly run's pick of pending jobs.
C30_OneRunPerJob ==
  \A j \in JobIds : Cardinality(RunsOf(j)) <= 1
====
